---- MODULE Spec2Model ----
(***************************************************************************)
(* SQL query planner of DataFusion (rust/datafusion/src/sql/planner.rs):   *)
(* SqlToRel lowers a parsed SQL statement to a logical plan.               *)
(*                                                                         *)
(* Strings are modelled as sequences of tokens, so that the concatenation  *)
(* done by the expression-name formatter is sequence concatenation and two *)
(* different expressions can get the same name, as they can in the code.   *)
(***************************************************************************)
EXTENDS Integers, Sequences, FiniteSets, TLC

VARIABLES
    stmt,      \* the statement handed to statement_to_plan
    pc,        \* "ready" before the call, "done" after it returned, "aborted" after a panic
    overflow_checks,  \* the build traps integer overflow (debug profile) or wraps (release)
    outcome    \* what the call produced: Ok(plan), Err(kind, msg) or Panic

vars == <<stmt, pc, overflow_checks, outcome>>

-----------------------------------------------------------------------------
(* Generic helpers                                                         *)

RECURSIVE SeqsUpTo(_, _)
\* all sequences over S of length 0..n
SeqsUpTo(S, n) ==
    IF n = 0 THEN {<<>>}
    ELSE LET shorter == SeqsUpTo(S, n - 1)
         IN  shorter \cup {Append(q, x) : q \in {r \in shorter : Len(r) = n - 1}, x \in S}

Range(q) == {q[i] : i \in 1..Len(q)}

RECURSIVE Concat(_)
\* concatenation of a sequence of sequences (Vec::concat / flat_map)
Concat(qq) == IF qq = <<>> THEN <<>> ELSE Head(qq) \o Concat(Tail(qq))

RECURSIVE Join(_, _)
\* [String]::join(sep) over token sequences
Join(qq, sep) ==
    IF qq = <<>> THEN <<>>
    ELSE IF Len(qq) = 1 THEN qq[1]
    ELSE qq[1] \o sep \o Join(Tail(qq), sep)

-----------------------------------------------------------------------------
(* Result<T>: Ok(v), Err(kind, msg); a panic aborts the call               *)

Ok(v) == [tag |-> "Ok", v |-> v]
Err(kind, msg) == [tag |-> "Err", kind |-> kind, msg |-> msg]
Panic == [tag |-> "Panic"]

IsOk(r) == r.tag = "Ok"
IsErr(r) == r.tag = "Err"
IsPanic(r) == r.tag = "Panic"

\* index of the first element of rs that is not Ok, 0 when there is none
FirstFailure(rs) ==
    IF \A i \in 1..Len(rs) : IsOk(rs[i]) THEN 0
    ELSE CHOOSE i \in 1..Len(rs) : ~IsOk(rs[i]) /\ \A j \in 1..(i - 1) : IsOk(rs[j])

\* iter.map(f).collect::<Result<Vec<_>>>(): elements are produced in order
\* and the first Err (or panic) ends the iteration
Collect(rs) ==
    IF FirstFailure(rs) = 0 THEN Ok([i \in 1..Len(rs) |-> rs[i].v])
    ELSE rs[FirstFailure(rs)]

\* the ? operator: the Ok value flows into the continuation, anything else
\* is returned at once
Try(r, K(_)) == IF IsOk(r) THEN K(r.v) ELSE r

\* Result::unwrap: a panic unless Ok
Unwrap(r) == IF IsOk(r) THEN r ELSE Panic

-----------------------------------------------------------------------------
(* SQL AST (sqlparser::ast), as uniform records                            *)

\* SQLExpr: k the variant, v its string payload (tokens), a its operands,
\* d the DISTINCT flag of a function call
SQLE(k, v, a, d) == [k |-> k, v |-> v, a |-> a, d |-> d]
NoExpr == SQLE("None", <<>>, <<>>, FALSE)              \* Option::None
SNumber(chars) == SQLE("Number", chars, <<>>, FALSE)   \* Value::Number(String)
SString(tok) == SQLE("SingleQuotedString", <<tok>>, <<>>, FALSE)
SIdent(toks) == SQLE("Identifier", toks, <<>>, FALSE)
SCompound(ids) == SQLE("CompoundIdentifier", <<>>, ids, FALSE)
SWildcard == SQLE("Wildcard", <<>>, <<>>, FALSE)
SCast(e, ty) == SQLE("Cast", <<ty>>, <<e>>, FALSE)
SIsNull(e) == SQLE("IsNull", <<>>, <<e>>, FALSE)
SIsNotNull(e) == SQLE("IsNotNull", <<>>, <<e>>, FALSE)
SUnary(op, e) == SQLE("UnaryOp", <<op>>, <<e>>, FALSE)
SBinary(l, op, r) == SQLE("BinaryOp", <<op>>, <<l, r>>, FALSE)
SFunc(name, args, distinct) == SQLE("Function", <<name>>, args, distinct)
SNested(e) == SQLE("Nested", <<>>, <<e>>, FALSE)
SOther == SQLE("Subquery", <<>>, <<>>, FALSE)          \* a variant sql_to_rex has no arm for

\* SelectItem
UnnamedExpr(e) == [k |-> "UnnamedExpr", e |-> e, alias |-> <<>>]
ExprWithAlias(e, alias) == [k |-> "ExprWithAlias", e |-> e, alias |-> alias]
ItemWildcard == [k |-> "Wildcard", e |-> NoExpr, alias |-> <<>>]
QualifiedWildcard(t) == [k |-> "QualifiedWildcard", e |-> NoExpr, alias |-> <<t>>]

\* OrderByExpr {expr, asc: Option<bool>, nulls_first: Option<bool>}; the
\* options are "none", "true" or "false"
OrderByExpr(e, asc, nulls_first) == [expr |-> e, asc |-> asc, nulls_first |-> nulls_first]

-----------------------------------------------------------------------------
(* Logical expressions (logical_plan::Expr), as uniform records            *)

\* k the variant, s its string payload (tokens), a its operands, d DISTINCT
E(k, s, a, d) == [k |-> k, s |-> s, a |-> a, d |-> d]
Literal(ty, val) == E("Literal", <<ty, "(">> \o val \o <<")">>, <<>>, FALSE)
Column(name) == E("Column", name, <<>>, FALSE)
ScalarVariable(names) == E("ScalarVariable", Join(names, <<".">>), <<>>, FALSE)
Alias(e, name) == E("Alias", name, <<e>>, FALSE)
BinaryExpr(l, op, r) == E("BinaryExpr", <<op>>, <<l, r>>, FALSE)
NotExpr(e) == E("Not", <<>>, <<e>>, FALSE)
IsNullExpr(e) == E("IsNull", <<>>, <<e>>, FALSE)
IsNotNullExpr(e) == E("IsNotNull", <<>>, <<e>>, FALSE)
CastExpr(e, ty) == E("Cast", <<ty>>, <<e>>, FALSE)
SortExpr(e, asc, nulls_first) ==
    E("Sort", <<IF asc THEN "ASC" ELSE "DESC",
                IF nulls_first THEN "NULLS FIRST" ELSE "NULLS LAST">>, <<e>>, FALSE)
ScalarFunction(fun, args) == E("ScalarFunction", <<fun>>, args, FALSE)
AggregateFunction(fun, distinct, args) == E("AggregateFunction", <<fun>>, args, distinct)
ScalarUDF(fun, args) == E("ScalarUDF", <<fun>>, args, FALSE)
AggregateUDF(fun, args) == E("AggregateUDF", <<fun>>, args, FALSE)
Wildcard == E("Wildcard", <<>>, <<>>, FALSE)

-----------------------------------------------------------------------------
(* Number literals: Value::Number holds the literal's characters           *)

Digits == {"0", "1", "2", "3", "4", "5", "6", "7", "8", "9"}

DigitVal(c) ==
    CASE c = "0" -> 0 [] c = "1" -> 1 [] c = "2" -> 2 [] c = "3" -> 3 [] c = "4" -> 4
      [] c = "5" -> 5 [] c = "6" -> 6 [] c = "7" -> 7 [] c = "8" -> 8 [] c = "9" -> 9

IsDigits(chars) == Len(chars) > 0 /\ \A i \in 1..Len(chars) : chars[i] \in Digits

RECURSIVE StripZeros(_)
\* the decimal digits of the value of a digit string: leading zeros dropped
StripZeros(chars) ==
    IF Len(chars) > 1 /\ Head(chars) = "0" THEN StripZeros(Tail(chars)) ELSE chars

RECURSIVE StripTrailingZeros(_)
StripTrailingZeros(chars) ==
    IF Len(chars) > 0 /\ chars[Len(chars)] = "0"
    THEN StripTrailingZeros(SubSeq(chars, 1, Len(chars) - 1)) ELSE chars

RECURSIVE LexLE(_, _)
\* a <= b for digit strings of equal length
LexLE(a, b) ==
    IF a = <<>> THEN TRUE
    ELSE IF DigitVal(Head(a)) < DigitVal(Head(b)) THEN TRUE
    ELSE IF DigitVal(Head(a)) > DigitVal(Head(b)) THEN FALSE
    ELSE LexLE(Tail(a), Tail(b))

\* value <= max for canonical digit strings (64-bit width kept on the digits)
DigitsLE(d, max) == Len(d) < Len(max) \/ (Len(d) = Len(max) /\ LexLE(d, max))

I64Max == <<"9","2","2","3","3","7","2","0","3","6","8","5","4","7","7","5","8","0","7">>
I64MinMagnitude == <<"9","2","2","3","3","7","2","0","3","6","8","5","4","7","7","5","8","0","8">>
UsizeMax == <<"1","8","4","4","6","7","4","4","0","7","3","7","0","9","5","5","1","6","1","5">>

HasSign(chars) == Len(chars) > 0 /\ Head(chars) \in {"+", "-"}
Unsigned(chars) == IF HasSign(chars) THEN Tail(chars) ELSE chars

\* str::parse::<i64>(): Ok(the canonical characters of the value) or Err
parse_i64(chars) ==
    LET neg == Len(chars) > 0 /\ Head(chars) = "-"
        d == StripZeros(Unsigned(chars))
    IN  IF ~IsDigits(Unsigned(chars)) THEN Err("ParseIntError", "invalid digit")
        ELSE IF ~DigitsLE(d, IF neg THEN I64MinMagnitude ELSE I64Max)
             THEN Err("ParseIntError", "number too large")
        ELSE Ok(IF neg /\ d # <<"0">> THEN <<"-">> \o d ELSE d)

\* str::parse::<usize>() on a 64-bit target: Ok(canonical digits) or Err
parse_usize(chars) ==
    LET body == IF Len(chars) > 0 /\ Head(chars) = "+" THEN Tail(chars) ELSE chars
        d == StripZeros(body)
    IN  IF ~IsDigits(body) THEN Err("ParseIntError", "invalid digit")
        ELSE IF ~DigitsLE(d, UsizeMax) THEN Err("ParseIntError", "number too large")
        ELSE Ok(d)

\* str::parse::<f64>() on the alphabet digits, ".", "+", "-": Ok(the shortest
\* decimal rendering of the value) or Err
parse_f64(chars) ==
    LET body == Unsigned(chars)
        dots == {i \in 1..Len(body) : body[i] = "."}
        wellFormed == /\ \A i \in 1..Len(body) : body[i] \in Digits \cup {"."}
                      /\ Cardinality(dots) <= 1
                      /\ \E i \in 1..Len(body) : body[i] \in Digits
        dot == IF dots = {} THEN Len(body) + 1 ELSE CHOOSE i \in dots : TRUE
        int == IF dot = 1 THEN <<"0">> ELSE StripZeros(SubSeq(body, 1, dot - 1))
        frac == StripTrailingZeros(SubSeq(body, dot + 1, Len(body)))
        mag == IF frac = <<>> THEN int ELSE int \o <<".">> \o frac
    IN  IF ~wellFormed THEN Err("ParseFloatError", "invalid float literal")
        ELSE Ok(IF Len(chars) > 0 /\ Head(chars) = "-" THEN <<"-">> \o mag ELSE mag)

RECURSIVE ToNat(_)
\* the value of a digit string (used on strings of at most 9 digits)
ToNat(d) == IF d = <<>> THEN 0 ELSE 10 * ToNat(SubSeq(d, 1, Len(d) - 1)) + DigitVal(d[Len(d)])

-----------------------------------------------------------------------------
(* The schema provider (the catalog the planner queries)                   *)

Field(name, type, nullable) == [name |-> name, type |-> type, nullable |-> nullable]

FieldNames(schema) == [i \in 1..Len(schema) |-> schema[i].name]

\* SchemaProvider::get_table_meta
get_table_meta(name) ==
    CASE name = "person" ->
           Ok(<<Field(<<"id">>, "UInt32", FALSE), Field(<<"first_name">>, "Utf8", FALSE),
                Field(<<"last_name">>, "Utf8", FALSE), Field(<<"age">>, "Int32", FALSE),
                Field(<<"state">>, "Utf8", FALSE), Field(<<"salary">>, "Float64", FALSE),
                Field(<<"birth_date">>, "Timestamp(Nanosecond, None)", FALSE)>>)
      [] name = "aggregate_test_100" ->
           Ok(<<Field(<<"c1">>, "Utf8", FALSE), Field(<<"c2">>, "UInt32", FALSE),
                Field(<<"c3">>, "Int8", FALSE), Field(<<"c4">>, "Int16", FALSE),
                Field(<<"c5">>, "Int32", FALSE), Field(<<"c6">>, "Int64", FALSE),
                Field(<<"c7">>, "UInt8", FALSE), Field(<<"c8">>, "UInt16", FALSE),
                Field(<<"c9">>, "UInt32", FALSE), Field(<<"c10">>, "UInt64", FALSE),
                Field(<<"c11">>, "Float32", FALSE), Field(<<"c12">>, "Float64", FALSE),
                Field(<<"c13">>, "Utf8", FALSE)>>)
      [] OTHER -> Err("None", "")

\* SchemaProvider::get_function_meta
get_function_meta(name) ==
    IF name \in {"my_sqrt", "MY_UPPER", "sqrt", "min"} THEN Ok(name) ELSE Err("None", "")

\* SchemaProvider::get_aggregate_meta
get_aggregate_meta(name) ==
    IF name \in {"my_avg", "MY_MAX", "my_sqrt", "nullif"} THEN Ok(name) ELSE Err("None", "")

\* Schema::field_with_name: the first field of that name
field_with_name(schema, name) ==
    IF \E i \in 1..Len(schema) : schema[i].name = name
    THEN Ok(schema[CHOOSE i \in 1..Len(schema) :
                     schema[i].name = name /\ \A j \in 1..(i - 1) : schema[j].name # name])
    ELSE Err("ArrowError", "Unable to get field named")

\* String::to_lowercase / to_uppercase on the function names of the model
to_lowercase(name) ==
    CASE name \in {"MIN", "Min"} -> "min" [] name = "MAX" -> "max" [] name = "SUM" -> "sum"
      [] name = "COUNT" -> "count" [] name = "AVG" -> "avg" [] name = "SQRT" -> "sqrt"
      [] name = "NULLIF" -> "nullif" [] name = "IF" -> "if"
      [] name = "MY_SQRT" -> "my_sqrt" [] name = "MY_UPPER" -> "my_upper"
      [] name = "MY_AVG" -> "my_avg" [] name = "MY_MAX" -> "my_max"
      [] name = "NOSUCH" -> "nosuch"
      [] OTHER -> name

to_uppercase(name) ==
    CASE name \in {"min", "Min"} -> "MIN" [] name = "max" -> "MAX" [] name = "sum" -> "SUM"
      [] name = "count" -> "COUNT" [] name = "avg" -> "AVG" [] name = "sqrt" -> "SQRT"
      [] name = "nullif" -> "NULLIF" [] name = "if" -> "IF"
      [] name = "my_sqrt" -> "MY_SQRT" [] name = "my_upper" -> "MY_UPPER"
      [] name = "my_avg" -> "MY_AVG" [] name = "my_max" -> "MY_MAX"
      [] name = "nosuch" -> "NOSUCH"
      [] OTHER -> name

\* functions::BuiltinScalarFunction::from_str succeeds on these names
BuiltinScalarFunctions == {"sqrt", "if"}

\* aggregates::AggregateFunction::from_str succeeds on these names
BuiltinAggregateFunctions == {"min", "max", "sum", "avg", "count"}

-----------------------------------------------------------------------------
(* TypeMapper                                                              *)

\* SqlToRel::make_data_type (DDL)
make_data_type(sql_type) ==
    CASE sql_type = "BigInt" -> Ok("Int64")
      [] sql_type = "Int" -> Ok("Int32")
      [] sql_type = "SmallInt" -> Ok("Int16")
      [] sql_type \in {"Char", "Varchar", "Text"} -> Ok("Utf8")
      [] sql_type = "Decimal" -> Ok("Float64")
      [] sql_type = "Float" -> Ok("Float32")
      [] sql_type \in {"Real", "Double"} -> Ok("Float64")
      [] sql_type = "Boolean" -> Ok("Boolean")
      [] sql_type = "Date" -> Ok("Date64(Day)")
      [] sql_type = "Time" -> Ok("Time64(Millisecond)")
      [] sql_type = "Timestamp" -> Ok("Date64(Millisecond)")
      [] OTHER -> Err("NotImplemented", "The SQL data type is not implemented")

\* convert_data_type (CAST)
convert_data_type(sql) ==
    CASE sql = "Boolean" -> Ok("Boolean")
      [] sql = "SmallInt" -> Ok("Int16")
      [] sql = "Int" -> Ok("Int32")
      [] sql = "BigInt" -> Ok("Int64")
      [] sql \in {"Float", "Real"} -> Ok("Float64")
      [] sql = "Double" -> Ok("Float64")
      [] sql \in {"Char", "Varchar"} -> Ok("Utf8")
      [] sql = "Timestamp" -> Ok("Timestamp(Nanosecond, None)")
      [] OTHER -> Err("NotImplemented", "Unsupported SQL type")

-----------------------------------------------------------------------------
(* ExprLowerer                                                             *)

\* the match on BinaryOperator inside sql_to_rex
SupportedBinaryOperators ==
    {"Gt", "GtEq", "Lt", "LtEq", "Eq", "NotEq", "Plus", "Minus", "Multiply",
     "Divide", "Modulus", "And", "Or", "Like", "NotLike"}

\* the Value::Number arm of sql_to_rex
number_to_rex(chars) ==
    IF IsOk(parse_i64(chars)) THEN Ok(Literal("Int64", parse_i64(chars).v))
    ELSE Try(Unwrap(parse_f64(chars)),   \* n.parse::<f64>().unwrap()
             LAMBDA f : Ok(Literal("Float64", f)))

\* identifier_to_rex without the schema lookup
identifier_to_rex_unchecked(id, schema) ==
    IF id = <<>> THEN Panic
    ELSE IF Head(id) = "@" THEN Ok(ScalarVariable(<<id>>))
    ELSE Ok(Column(id))

\* the Identifier arm of sql_to_rex
identifier_to_rex(id, schema) ==
    IF id = <<>> THEN Panic   \* &id.value[0..1] on an empty string
    ELSE IF Head(id) = "@" THEN Ok(ScalarVariable(<<id>>))
    ELSE IF IsOk(field_with_name(schema, id)) THEN Ok(Column(field_with_name(schema, id).v.name))
    ELSE Err("Plan", "Invalid identifier for schema")

\* the CompoundIdentifier arm without the test for a leading '@': every
\* compound identifier is taken as alias.column
compound_identifier_to_rex_no_variables(var_names, schema, aliased_schema) ==
    IF var_names = <<>> THEN Panic
    ELSE IF var_names[1] \in aliased_schema
         THEN IF Len(var_names) < 2 THEN Panic
              ELSE IF IsOk(field_with_name(schema, var_names[2]))
                   THEN Ok(Column(field_with_name(schema, var_names[2]).v.name))
              ELSE Err("ExecutionError", "Invalid identifier for schema")
    ELSE Err("Plan", "Invalid compound identifier. Alias not found among")

\* the CompoundIdentifier arm of sql_to_rex; ids are the parts' values
compound_identifier_to_rex(var_names, schema, aliased_schema) ==
    IF var_names = <<>> \/ var_names[1] = <<>> THEN Panic   \* var_names[0][0..1]
    ELSE IF Head(var_names[1]) = "@" THEN Ok(ScalarVariable(var_names))
    ELSE IF var_names[1] \in aliased_schema
         THEN IF Len(var_names) < 2 THEN Panic   \* var_names[1] out of bounds
              ELSE IF IsOk(field_with_name(schema, var_names[2]))
                   THEN Ok(Column(field_with_name(schema, var_names[2]).v.name))
              ELSE Err("ExecutionError", "Invalid identifier for schema")
    ELSE Err("Plan", "Invalid compound identifier. Alias not found among")

\* the arguments of COUNT replaced by lit(1_u8), with the wildcard alone
\* replaced
counts_rows_wildcard_only(a) == a.k = "Wildcard"

\* the arguments of COUNT that the Function arm replaces by lit(1_u8)
counts_rows(a) == a.k \in {"Number", "Wildcard"}

\* format!("Invalid function '{}'", name) on the function names of the model
invalid_function(name) ==
    CASE name = "nosuch" -> "Invalid function 'nosuch'"
      [] name = "sqrt" -> "Invalid function 'sqrt'"
      [] name = "nullif" -> "Invalid function 'nullif'"
      [] name = "min" -> "Invalid function 'min'"
      [] name = "count" -> "Invalid function 'count'"
      [] name = "my_sqrt" -> "Invalid function 'my_sqrt'"
      [] name = "my_upper" -> "Invalid function 'my_upper'"
      [] name = "my_avg" -> "Invalid function 'my_avg'"
      [] name = "my_max" -> "Invalid function 'my_max'"
      [] OTHER -> "Invalid function '<name as written>'"

\* the Function arm of sql_to_rex with the provider's scalar functions
\* consulted before the built-ins
function_kind_udf_first(name) ==
    IF IsOk(get_function_meta(name)) \/ IsOk(get_function_meta(to_uppercase(name)))
    THEN "ScalarUDF"
    ELSE IF name \in BuiltinScalarFunctions THEN "ScalarFunction"
    ELSE IF name = "nullif" /\ "if" \in BuiltinScalarFunctions THEN "nullif"
    ELSE IF name \in BuiltinAggregateFunctions THEN "AggregateFunction"
    ELSE IF IsOk(get_aggregate_meta(name)) \/ IsOk(get_aggregate_meta(to_uppercase(name)))
    THEN "AggregateUDF"
    ELSE "Invalid"

\* the Function arm of sql_to_rex: which of its branches takes the call of the
\* (lowercased) name
function_kind(name) ==
    IF name \in BuiltinScalarFunctions THEN "ScalarFunction"
    ELSE IF name = "nullif" /\ "if" \in BuiltinScalarFunctions THEN "nullif"
    ELSE IF name \in BuiltinAggregateFunctions THEN "AggregateFunction"
    ELSE IF IsOk(get_function_meta(name)) \/ IsOk(get_function_meta(to_uppercase(name)))
    THEN "ScalarUDF"
    ELSE IF IsOk(get_aggregate_meta(name)) \/ IsOk(get_aggregate_meta(to_uppercase(name)))
    THEN "AggregateUDF"
    ELSE "Invalid"

RECURSIVE sql_to_rex(_, _, _)
\* SqlToRel::sql_to_rex; aliased_schema is the key set of the alias map
sql_to_rex(sql, schema, aliased_schema) ==
    LET lower(e) == sql_to_rex(e, schema, aliased_schema)
        args == Collect([i \in 1..Len(sql.a) |-> lower(sql.a[i])])
        unary(make(_)) == IF IsOk(lower(sql.a[1])) THEN Ok(make(lower(sql.a[1]).v))
                          ELSE lower(sql.a[1])
        name == to_lowercase(sql.v[1])
        count_args == Collect([i \in 1..Len(sql.a) |->
                         IF counts_rows(sql.a[i])
                         THEN Ok(Literal("UInt8", <<"1">>)) ELSE lower(sql.a[i])])
        function_meta == IF IsOk(get_function_meta(name)) THEN get_function_meta(name)
                         ELSE get_function_meta(to_uppercase(name))
        aggregate_meta == IF IsOk(get_aggregate_meta(name)) THEN get_aggregate_meta(name)
                          ELSE get_aggregate_meta(to_uppercase(name))
    IN  CASE sql.k = "Number" -> number_to_rex(sql.v)
          [] sql.k = "SingleQuotedString" -> Ok(Literal("Utf8", <<"\"">> \o sql.v \o <<"\"">>))
          [] sql.k = "Identifier" -> identifier_to_rex(sql.v, schema)
          [] sql.k = "CompoundIdentifier" ->
               compound_identifier_to_rex([i \in 1..Len(sql.a) |-> sql.a[i].v],
                                          schema, aliased_schema)
          [] sql.k = "Wildcard" -> Ok(Wildcard)
          [] sql.k = "Cast" ->
               IF ~IsOk(lower(sql.a[1])) THEN lower(sql.a[1])
               ELSE IF ~IsOk(convert_data_type(sql.v[1])) THEN convert_data_type(sql.v[1])
               ELSE Ok(CastExpr(lower(sql.a[1]).v, convert_data_type(sql.v[1]).v))
          [] sql.k = "IsNull" -> unary(IsNullExpr)
          [] sql.k = "IsNotNull" -> unary(IsNotNullExpr)
          [] sql.k = "UnaryOp" ->
               IF sql.v[1] = "Not" THEN unary(NotExpr)
               ELSE Err("Internal", "SQL binary operator cannot be interpreted as a unary operator")
          [] sql.k = "BinaryOp" ->
               IF sql.v[1] \notin SupportedBinaryOperators
               THEN Err("NotImplemented", "Unsupported SQL binary operator")
               ELSE IF ~IsOk(lower(sql.a[1])) THEN lower(sql.a[1])
               ELSE IF ~IsOk(lower(sql.a[2])) THEN lower(sql.a[2])
               ELSE Ok(BinaryExpr(lower(sql.a[1]).v, sql.v[1], lower(sql.a[2]).v))
          [] sql.k = "Function" ->
               IF function_kind(name) = "ScalarFunction"
               THEN IF IsOk(args) THEN Ok(ScalarFunction(name, args.v)) ELSE args
               ELSE IF function_kind(name) = "nullif"
               THEN IF Len(sql.a) # 2
                    THEN Err("General", "nullif expects 2 arguments but found")
                    ELSE IF ~IsOk(lower(sql.a[1])) THEN lower(sql.a[1])
                    ELSE IF ~IsOk(lower(sql.a[2])) THEN lower(sql.a[2])
                    ELSE Ok(ScalarFunction("if",
                              <<BinaryExpr(lower(sql.a[1]).v, "NotEq", lower(sql.a[2]).v),
                                lower(sql.a[1]).v>>))
               ELSE IF function_kind(name) = "AggregateFunction"
               THEN IF name = "count"
                    THEN IF IsOk(count_args)
                         THEN Ok(AggregateFunction(name, sql.d, count_args.v)) ELSE count_args
                    ELSE IF IsOk(args) THEN Ok(AggregateFunction(name, sql.d, args.v)) ELSE args
               ELSE IF function_kind(name) = "ScalarUDF"
               THEN IF IsOk(args) THEN Ok(ScalarUDF(function_meta.v, args.v)) ELSE args
               ELSE IF function_kind(name) = "AggregateUDF"
               THEN IF IsOk(args) THEN Ok(AggregateUDF(aggregate_meta.v, args.v)) ELSE args
               ELSE Err("Plan", invalid_function(name))
          [] sql.k = "Nested" -> lower(sql.a[1])
          [] OTHER -> Err("NotImplemented", "Unsupported ast node in sqltorel")

-----------------------------------------------------------------------------
(* AggregateAnalyzer                                                       *)

RECURSIVE is_aggregate_expr(_)
is_aggregate_expr(e) ==
    CASE e.k \in {"AggregateFunction", "AggregateUDF"} -> TRUE
      [] e.k = "Alias" -> is_aggregate_expr(e.a[1])
      [] e.k = "BinaryExpr" -> is_aggregate_expr(e.a[1]) \/ is_aggregate_expr(e.a[2])
      [] e.k = "ScalarFunction" -> \E i \in 1..Len(e.a) : is_aggregate_expr(e.a[i])
      [] OTHER -> FALSE

RECURSIVE collect_aggregate_expr(_, _)
RECURSIVE collect_aggregate_args(_, _)
\* the for loop over the arguments of a ScalarFunction
collect_aggregate_args(args, result) ==
    IF args = <<>> THEN result
    ELSE collect_aggregate_args(Tail(args), collect_aggregate_expr(Head(args), result))

\* collect_aggregate_expr visiting the right operand of a BinaryExpr first
collect_aggregate_expr_right_first(e, result) ==
    CASE e.k \in {"AggregateFunction", "AggregateUDF"} -> Append(result, e)
      [] e.k = "Alias" -> collect_aggregate_expr(e.a[1], result)
      [] e.k = "BinaryExpr" ->
           collect_aggregate_expr(e.a[1], collect_aggregate_expr(e.a[2], result))
      [] e.k = "ScalarFunction" -> collect_aggregate_args(e.a, result)
      [] OTHER -> result

\* collect_aggregate_expr
collect_aggregate_expr(e, result) ==
    CASE e.k \in {"AggregateFunction", "AggregateUDF"} -> Append(result, e)
      [] e.k = "Alias" -> collect_aggregate_expr(e.a[1], result)
      [] e.k = "BinaryExpr" ->
           collect_aggregate_expr(e.a[2], collect_aggregate_expr(e.a[1], result))
      [] e.k = "ScalarFunction" -> collect_aggregate_args(e.a, result)
      [] OTHER -> result

-----------------------------------------------------------------------------
(* Expression names and fields (logical_plan::Expr::name, Expr::to_field)  *)

RECURSIVE name(_)
\* Expr::name: the computed name of an expression; Ok(tokens) or Err
name(e) ==
    LET argNames == Collect([i \in 1..Len(e.a) |-> name(e.a[i])])
        call(fun, distinct) ==
            IF IsOk(argNames)
            THEN Ok(<<fun, "(">> \o (IF distinct THEN <<"DISTINCT ">> ELSE <<>>)
                    \o Join(argNames.v, <<",">>) \o <<")">>)
            ELSE argNames
        wrap(pre, post) == IF IsOk(argNames) THEN Ok(pre \o argNames.v[1] \o post) ELSE argNames
    IN  CASE e.k \in {"Alias", "Column", "ScalarVariable", "Literal"} -> Ok(e.s)
          [] e.k = "BinaryExpr" ->
               IF IsOk(argNames) THEN Ok(argNames.v[1] \o <<" ", e.s[1], " ">> \o argNames.v[2])
               ELSE argNames
          [] e.k = "Cast" -> wrap(<<"CAST(">>, <<" as ", e.s[1], ")">>)
          [] e.k = "Not" -> wrap(<<"NOT ">>, <<>>)
          [] e.k = "IsNull" -> wrap(<<>>, <<" IS NULL">>)
          [] e.k = "IsNotNull" -> wrap(<<>>, <<" IS NOT NULL">>)
          [] e.k \in {"ScalarFunction", "ScalarUDF", "AggregateUDF"} -> call(e.s[1], FALSE)
          [] e.k = "AggregateFunction" -> call(to_uppercase(e.s[1]), e.d)
          [] OTHER -> Err("NotImplemented", "Create name does not support this expression")

RECURSIVE get_type(_, _)
\* Expr::get_type: the data type of an expression over a schema; it fails on
\* a Column the schema does not have and on Wildcard
get_type(e, schema) ==
    LET argTypes == Collect([i \in 1..Len(e.a) |-> get_type(e.a[i], schema)])
        given(ty) == IF IsOk(argTypes) THEN Ok(ty) ELSE argTypes
    IN  CASE e.k = "Column" ->
               IF IsOk(field_with_name(schema, e.s)) THEN Ok(field_with_name(schema, e.s).v.type)
               ELSE field_with_name(schema, e.s)
          [] e.k = "Literal" -> Ok(e.s[1])
          [] e.k = "ScalarVariable" -> Ok("Utf8")
          [] e.k \in {"Alias", "Sort"} -> get_type(e.a[1], schema)
          [] e.k = "Cast" -> given(e.s[1])
          [] e.k \in {"Not", "IsNull", "IsNotNull"} -> given("Boolean")
          [] e.k = "BinaryExpr" ->
               IF e.s[1] \in {"Plus", "Minus", "Multiply", "Divide", "Modulus"}
               THEN IF IsOk(argTypes) THEN Ok(argTypes.v[1]) ELSE argTypes
               ELSE given("Boolean")
          [] e.k = "AggregateFunction" ->
               IF e.s[1] = "count" THEN given("UInt64")
               ELSE IF e.s[1] = "avg" THEN given("Float64")
               ELSE IF IsOk(argTypes) /\ Len(e.a) > 0 THEN Ok(argTypes.v[1])
               ELSE IF IsOk(argTypes) THEN Err("Plan", "aggregate without argument")
               ELSE argTypes
          [] e.k \in {"ScalarFunction", "ScalarUDF", "AggregateUDF"} -> given("Float64")
          [] OTHER -> Err("Internal", "Wildcard expressions are not valid in a logical query plan")

RECURSIVE nullable(_, _)
\* Expr::nullable, evaluated once get_type has succeeded
nullable(e, schema) ==
    CASE e.k = "Column" -> field_with_name(schema, e.s).v.nullable
      [] e.k \in {"Alias", "Cast", "Sort", "Not"} -> nullable(e.a[1], schema)
      [] e.k \in {"Literal", "IsNull", "IsNotNull"} -> FALSE
      [] e.k = "BinaryExpr" -> nullable(e.a[1], schema) \/ nullable(e.a[2], schema)
      [] OTHER -> TRUE

\* Expr::to_field: the field an expression contributes to an output schema
to_field(e, input_schema) ==
    Try(get_type(e, input_schema), LAMBDA data_type :
    Try(name(e), LAMBDA field_name :
        Ok(Field(field_name, data_type, nullable(e, input_schema)))))

exprlist_to_fields(exprs, input_schema) ==
    Collect([i \in 1..Len(exprs) |-> to_field(exprs[i], input_schema)])

-----------------------------------------------------------------------------
(* Logical plans (logical_plan::LogicalPlan) and their builder             *)

\* a plan node: expr its expressions (group expressions for Aggregate),
\* aggr_expr the aggregate expressions of an Aggregate, inputs its children
Plan(node, table, expr, aggr_expr, inputs, schema, alias, n) ==
    [node |-> node, table |-> table, expr |-> expr, aggr_expr |-> aggr_expr,
     inputs |-> inputs, schema |-> schema, alias |-> alias, n |-> n]

\* LogicalPlanBuilder::empty
EmptyRelation == Plan("EmptyRelation", "", <<>>, <<>>, <<>>, <<>>, <<>>, <<>>)

\* LogicalPlanBuilder::scan
TableScan(table, schema, alias) == Plan("TableScan", table, <<>>, <<>>, <<>>, schema, alias, <<>>)

\* LogicalPlanBuilder::filter
Filter(input, predicate) ==
    Plan("Filter", "", <<predicate>>, <<>>, <<input>>, input.schema, <<>>, <<>>)

\* LogicalPlanBuilder::sort
Sort(input, exprs) == Plan("Sort", "", exprs, <<>>, <<input>>, input.schema, <<>>, <<>>)

\* LogicalPlanBuilder::limit
Limit(input, n) == Plan("Limit", "", <<>>, <<>>, <<input>>, input.schema, <<>>, n)

\* LogicalPlan::Union
Union(inputs, schema, alias) == Plan("Union", "", <<>>, <<>>, inputs, schema, alias, <<>>)

\* the expansion of Wildcard entries done by LogicalPlanBuilder::project
expand_wildcard(exprs, input_schema) ==
    Concat([i \in 1..Len(exprs) |->
              IF exprs[i].k = "Wildcard"
              THEN [j \in 1..Len(input_schema) |-> Column(input_schema[j].name)]
              ELSE <<exprs[i]>>])

\* LogicalPlanBuilder::project: derives the output schema from the
\* expressions; a schema that cannot be derived is a plan-validity error
project(input, exprs) ==
    Try(exprlist_to_fields(expand_wildcard(exprs, input.schema), input.schema), LAMBDA fields :
        Ok(Plan("Projection", "", expand_wildcard(exprs, input.schema), <<>>, <<input>>,
                fields, <<>>, <<>>)))

\* LogicalPlanBuilder::aggregate: the output schema has one field per group
\* expression followed by one per aggregate expression
aggregate_node(input, group_expr, aggr_expr) ==
    Try(exprlist_to_fields(group_expr \o aggr_expr, input.schema), LAMBDA fields :
        Ok(Plan("Aggregate", "", group_expr, aggr_expr, <<input>>, fields, <<>>, <<>>)))

RECURSIVE aliased_schema(_)
\* LogicalPlan::aliased_schema: the aliases under which relations of the plan
\* are known (the keys of the alias map)
aliased_schema(plan) ==
    (IF plan.node \in {"TableScan", "Union"} /\ plan.alias # <<>> THEN {plan.alias[1]} ELSE {})
    \cup (IF plan.node = "Union" THEN {}
          ELSE UNION {aliased_schema(plan.inputs[i]) : i \in 1..Len(plan.inputs)})

-----------------------------------------------------------------------------
(* usize arithmetic of the GROUP BY index, kept on the decimal digits      *)

DigitOf(v) == CHOOSE c \in Digits : DigitVal(c) = v

RECURSIVE Decrement(_)
\* d - 1 for a digit string d of a value >= 1 (leading zeros not stripped)
Decrement(d) ==
    IF DigitVal(d[Len(d)]) > 0
    THEN SubSeq(d, 1, Len(d) - 1) \o <<DigitOf(DigitVal(d[Len(d)]) - 1)>>
    ELSE Decrement(SubSeq(d, 1, Len(d) - 1)) \o <<"9">>

\* n - 1 on usize: 0 - 1 panics when the build traps overflow and wraps to
\* usize::MAX when it does not
usize_sub_one(n) ==
    IF n = <<"0">> THEN (IF overflow_checks THEN Panic ELSE Ok(UsizeMax))
    ELSE Ok(StripZeros(Decrement(n)))

\* d < len for a digit string d and a vector length len
DigitsLT(d, len) == Len(d) <= 9 /\ ToNat(d) < len

-----------------------------------------------------------------------------
(* Sorting of names (Vec<String>::sort)                                    *)

\* a fixed total order on names; the planner only compares two sorted lists
\* for equality, which does not depend on the order chosen
NameBefore(a, b) == a = (CHOOSE x \in {a, b} : TRUE)

RECURSIVE InsertSorted(_, _)
InsertSorted(q, x) ==
    IF q = <<>> THEN <<x>>
    ELSE IF NameBefore(x, Head(q)) THEN <<x>> \o q
    ELSE <<Head(q)>> \o InsertSorted(Tail(q), x)

RECURSIVE sort_dedup(_)
\* sort that also drops repeated names
sort_dedup(q) ==
    IF q = <<>> THEN <<>>
    ELSE IF Head(q) \in Range(Tail(q)) THEN sort_dedup(Tail(q))
    ELSE InsertSorted(sort_dedup(Tail(q)), Head(q))

RECURSIVE sort(_)
sort(q) == IF q = <<>> THEN <<>> ELSE InsertSorted(sort(Tail(q)), Head(q))

RECURSIVE unique_by_name(_, _)
\* Itertools::unique_by on (name, expr) pairs: the first pair of each name
unique_by_name(pairs, seen) ==
    IF pairs = <<>> THEN <<>>
    ELSE IF Head(pairs).name \in seen THEN unique_by_name(Tail(pairs), seen)
    ELSE <<Head(pairs).e>> \o unique_by_name(Tail(pairs), seen \cup {Head(pairs).name})

-----------------------------------------------------------------------------
(* Statements (sqlparser::ast and sql::parser)                             *)

TableFactorTable(table, alias) == [k |-> "Table", name |-> table, alias |-> alias]
TableFactorDerived(subquery, alias) == [k |-> "Derived", subquery |-> subquery, alias |-> alias]
TableFactorNestedJoin == [k |-> "NestedJoin", alias |-> <<>>]
TableWithJoins(relation, joins) == [relation |-> relation, joins |-> joins]
Select(projection, from, selection, group_by, having) ==
    [projection |-> projection, from |-> from, selection |-> selection,
     group_by |-> group_by, having |-> having]
SetExprSelect(select) == [k |-> "Select", select |-> select]
SetOperation(op, all, left, right) ==
    [k |-> "SetOperation", op |-> op, all |-> all, left |-> left, right |-> right]
SetExprValues == [k |-> "Values"]
Query(body, order_by, limit) == [body |-> body, order_by |-> order_by, limit |-> limit]
StatementQuery(query) == [k |-> "Query", query |-> query]
StatementOther == [k |-> "Insert"]
DFStatementStatement(s) == [k |-> "Statement", s |-> s]
DFStatementExplain(verbose, statement) ==
    [k |-> "Explain", verbose |-> verbose, statement |-> statement]
ColumnDef(column, data_type, options) ==
    [name |-> column, data_type |-> data_type, options |-> options]
CreateExternalTable(table, columns, file_type, has_header, location) ==
    [k |-> "CreateExternalTable", name |-> table, columns |-> columns,
     file_type |-> file_type, has_header |-> has_header, location |-> location]

-----------------------------------------------------------------------------
(* SelectPipeline                                                          *)

RECURSIVE replace_aggregate_expr_in_projection(_, _)
replace_aggregate_expr_in_projection(expr, aggregate_expr) ==
    LET replaced(i) == replace_aggregate_expr_in_projection(expr.a[i], aggregate_expr)
    IN  Try(name(expr), LAMBDA expr_name :
            IF expr_name \in aggregate_expr THEN Ok(Column(expr_name))
            ELSE CASE expr.k = "Alias" ->
                        Try(replaced(1), LAMBDA inner : Ok(Alias(inner, expr.s)))
                   [] expr.k = "BinaryExpr" ->
                        Try(replaced(1), LAMBDA left :
                        Try(replaced(2), LAMBDA right : Ok(BinaryExpr(left, expr.s[1], right))))
                   [] expr.k = "ScalarFunction" ->
                        Try(Collect([i \in 1..Len(expr.a) |-> replaced(i)]), LAMBDA args :
                            Ok(ScalarFunction(expr.s[1], args)))
                   [] OTHER -> Ok(expr))

\* SqlToRel::sql_select_to_rex
sql_select_to_rex(sql, schema, aliases) ==
    CASE sql.k = "UnnamedExpr" -> sql_to_rex(sql.e, schema, aliases)
      [] sql.k = "ExprWithAlias" ->
           Try(sql_to_rex(sql.e, schema, aliases), LAMBDA rex : Ok(Alias(rex, sql.alias)))
      [] sql.k = "Wildcard" -> Ok(Wildcard)
      [] OTHER -> Err("NotImplemented", "Qualified wildcards are not supported")

\* SqlToRel::filter
filter(plan, predicate) ==
    IF predicate = NoExpr THEN Ok(plan)
    ELSE Try(sql_to_rex(predicate, plan.schema, aliased_schema(plan)), LAMBDA predicate_expr :
             Ok(Filter(plan, predicate_expr)))

\* the closure mapped over group_by in SqlToRel::aggregate
group_by_to_rex(e, projection_expr, input) ==
    IF e.k # "Number" THEN sql_to_rex(e, input.schema, aliased_schema(input))
    ELSE IF ~IsOk(parse_usize(e.v)) THEN Err("General", "Can't parse as number")
    ELSE Try(usize_sub_one(parse_usize(e.v).v), LAMBDA n_minus_1 :
             IF DigitsLT(n_minus_1, Len(projection_expr)) /\ parse_usize(e.v).v # <<"0">>
             THEN IF is_aggregate_expr(projection_expr[ToNat(n_minus_1) + 1])
                  THEN Err("General", "Can't group by aggregate function")
                  ELSE Ok(projection_expr[ToNat(n_minus_1) + 1])
             ELSE Err("General", "Select column reference should be within 1..len"))

\* names of a list of expressions: iter.map(|e| e.name(schema)).collect()
names_of(exprs) == Collect([i \in 1..Len(exprs) |-> name(exprs[i])])

\* names_differ comparing the lists as given, without sorting them
names_differ_unsorted(group_expr_names, non_aggr_projection_names) ==
    group_expr_names # non_aggr_projection_names

\* the consistency check of SqlToRel::aggregate: both name lists are sorted
\* and compared
names_differ(group_expr_names, non_aggr_projection_names) ==
    sort(group_expr_names) # sort(non_aggr_projection_names)

\* needs_projection comparing the two lists as sets of names
needs_projection_unordered(expected_names, column_names) ==
    Range(expected_names) # Range(column_names)

\* the final comparison of SqlToRel::aggregate: the names of the rewritten
\* projection against the names of the aggregate's output columns, in order
needs_projection(expected_names, column_names) == expected_names # column_names

\* SqlToRel::aggregate
aggregate(input, projection_expr, group_by, aggr_expr) ==
    Try(Collect([i \in 1..Len(group_by) |->
                   group_by_to_rex(group_by[i], projection_expr, input)]), LAMBDA group_expr :
    Try(names_of(group_expr), LAMBDA group_expr_names :
    Try(names_of(SelectSeq(projection_expr, LAMBDA e : ~is_aggregate_expr(e))),
        LAMBDA non_aggr_projection_names :
        IF names_differ(group_expr_names, non_aggr_projection_names)
        THEN Err("Plan", "Projection references non-aggregate values")
        ELSE
    Try(aggregate_node(input, group_expr, aggr_expr), LAMBDA plan :
    Try(Collect([i \in 1..Len(projection_expr) |->
                   replace_aggregate_expr_in_projection(
                       projection_expr[i], Range(FieldNames(plan.schema)))]),
        LAMBDA expected_columns :
    Try(names_of(expected_columns), LAMBDA expected_names :
    Try(names_of([i \in 1..Len(plan.schema) |-> Column(plan.schema[i].name)]),
        LAMBDA column_names :
        IF needs_projection(expected_names, column_names)
        THEN project(plan, expected_columns)
        ELSE Ok(plan))))))))

\* SqlToRel::order_by
order_by(plan, order) ==
    IF Len(order) = 0 THEN Ok(plan)
    ELSE Try(Collect([i \in 1..Len(order) |->   \* the lowering result is .unwrap()ed
                Try(Unwrap(sql_to_rex(order[i].expr, plan.schema, aliased_schema(plan))),
                    LAMBDA rex : Ok(SortExpr(rex, order[i].asc # "false",
                                             order[i].nulls_first # "false")))]),
             LAMBDA order_by_rex : Ok(Sort(plan, order_by_rex)))

\* n as usize for the value of an Int64 literal, on its characters
i64_as_usize(n) == IF Head(n) = "-" THEN <<"2^64", "-">> \o Tail(n) ELSE n

\* limit taking the count of any literal
limit_any_literal(input, limit_expr) ==
    IF limit_expr = NoExpr THEN Ok(input)
    ELSE Try(sql_to_rex(limit_expr, input.schema, aliased_schema(input)), LAMBDA rex :
             IF rex.k = "Literal"
             THEN Ok(Limit(input, i64_as_usize(SubSeq(rex.s, 3, Len(rex.s) - 1))))
             ELSE Err("Plan", "Unexpected expression for LIMIT clause"))

\* SqlToRel::limit
limit(input, limit_expr) ==
    IF limit_expr = NoExpr THEN Ok(input)
    ELSE Try(sql_to_rex(limit_expr, input.schema, aliased_schema(input)), LAMBDA rex :
             IF rex.k = "Literal" /\ rex.s[1] = "Int64"
             THEN Ok(Limit(input, i64_as_usize(SubSeq(rex.s, 3, Len(rex.s) - 1))))
             ELSE Err("Plan", "Unexpected expression for LIMIT clause"))

RECURSIVE query_to_plan_with_alias(_, _)
RECURSIVE set_expr_to_plan(_, _)
RECURSIVE select_to_plan(_)
RECURSIVE from_join_to_plan(_)

\* SqlToRel::from_join_to_plan
from_join_to_plan(from) ==
    IF Len(from) = 0 THEN Ok(EmptyRelation)
    ELSE IF Len(from) # 1
         THEN Err("NotImplemented", "FROM with multiple tables is still not implemented")
    ELSE LET relation == from[1].relation
         IN  CASE relation.k = "Table" ->
                    IF IsOk(get_table_meta(relation.name))
                    THEN Ok(TableScan(relation.name, get_table_meta(relation.name).v,
                                      relation.alias))
                    ELSE Err("Plan", "no schema found for table")
               [] relation.k = "Derived" ->
                    query_to_plan_with_alias(relation.subquery, relation.alias)
               [] OTHER -> Err("NotImplemented", "Subqueries are still not supported")

\* the aggr_expr computed by select_to_plan from the lowered projection
collect_aggr_expr(projection_expr) ==
    LET collected == Concat([i \in 1..Len(projection_expr) |->
                               IF is_aggregate_expr(projection_expr[i])
                               THEN collect_aggregate_expr(projection_expr[i], <<>>)
                               ELSE <<>>])
    IN  Try(Collect([i \in 1..Len(collected) |->
                       Try(name(collected[i]), LAMBDA expr_name :
                           Ok([name |-> expr_name, e |-> collected[i]]))]),
            LAMBDA named : Ok(unique_by_name(named, {})))

\* select_to_plan taking the aggregate branch only for a GROUP BY list
select_to_plan_group_by_only(select) ==
    IF select.having # NoExpr THEN Err("NotImplemented", "HAVING is not implemented yet")
    ELSE
    Try(from_join_to_plan(select.from), LAMBDA relation :
    Try(filter(relation, select.selection), LAMBDA plan :
    Try(Collect([i \in 1..Len(select.projection) |->
                   sql_select_to_rex(select.projection[i], plan.schema, aliased_schema(plan))]),
        LAMBDA projection_expr :
    Try(collect_aggr_expr(projection_expr), LAMBDA aggr_expr :
        IF Len(select.group_by) > 0
        THEN aggregate(plan, projection_expr, select.group_by, aggr_expr)
        ELSE project(plan, projection_expr)))))

\* SqlToRel::select_to_plan
select_to_plan(select) ==
    IF select.having # NoExpr THEN Err("NotImplemented", "HAVING is not implemented yet")
    ELSE
    Try(from_join_to_plan(select.from), LAMBDA relation :
    Try(filter(relation, select.selection), LAMBDA plan :
    Try(Collect([i \in 1..Len(select.projection) |->
                   sql_select_to_rex(select.projection[i], plan.schema, aliased_schema(plan))]),
        LAMBDA projection_expr :
    Try(collect_aggr_expr(projection_expr), LAMBDA aggr_expr :
        IF Len(select.group_by) > 0 \/ Len(aggr_expr) > 0
        THEN aggregate(plan, projection_expr, select.group_by, aggr_expr)
        ELSE project(plan, projection_expr)))))

\* flatten_union splicing in the inputs of the left plan only
flatten_union_left_only(plans) ==
    Concat([i \in 1..Len(plans) |->
              IF i = 1 /\ plans[i].node = "Union" THEN plans[i].inputs ELSE <<plans[i]>>])

\* the flat_map over [left_plan, right_plan] in set_expr_to_plan
flatten_union(plans) ==
    Concat([i \in 1..Len(plans) |->
              IF plans[i].node = "Union" THEN plans[i].inputs ELSE <<plans[i]>>])

\* same_schema comparing the field names only
same_schema_names_only(inputs) ==
    \A i \in 1..Len(inputs) : FieldNames(inputs[i].schema) = FieldNames(inputs[1].schema)

\* the schema check of set_expr_to_plan: every input has the first one's schema
same_schema(inputs) == \A i \in 1..Len(inputs) : inputs[i].schema = inputs[1].schema

\* set_expr_to_plan handing its alias down: to both operands of a UNION ALL,
\* and onto the plan of a SELECT
set_expr_to_plan_alias_through(set_expr, alias) ==
    CASE set_expr.k = "Select" ->
           Try(select_to_plan(set_expr.select), LAMBDA plan : Ok([plan EXCEPT !.alias = alias]))
      [] set_expr.k = "SetOperation" ->
           IF set_expr.op = "Union" /\ set_expr.all
           THEN Try(set_expr_to_plan(set_expr.left, alias), LAMBDA left_plan :
                Try(set_expr_to_plan(set_expr.right, alias), LAMBDA right_plan :
                    LET inputs == flatten_union(<<left_plan, right_plan>>)
                    IN  IF Len(inputs) = 0 THEN Err("ExecutionError", "Empty UNION")
                        ELSE IF ~same_schema(inputs)
                             THEN Err("ExecutionError",
                                      "UNION ALL schema expected to be the same across selects")
                        ELSE Ok(Union(inputs, inputs[1].schema, alias))))
           ELSE Err("NotImplemented", "Only UNION ALL is supported")
      [] OTHER -> Err("NotImplemented", "Query not implemented yet")

\* SqlToRel::set_expr_to_plan
set_expr_to_plan(set_expr, alias) ==
    CASE set_expr.k = "Select" -> select_to_plan(set_expr.select)
      [] set_expr.k = "SetOperation" ->
           IF set_expr.op = "Union" /\ set_expr.all
           THEN Try(set_expr_to_plan(set_expr.left, <<>>), LAMBDA left_plan :
                Try(set_expr_to_plan(set_expr.right, <<>>), LAMBDA right_plan :
                    LET inputs == flatten_union(<<left_plan, right_plan>>)
                    IN  IF Len(inputs) = 0 THEN Err("ExecutionError", "Empty UNION")
                        ELSE IF ~same_schema(inputs)
                             THEN Err("ExecutionError",
                                      "UNION ALL schema expected to be the same across selects")
                        ELSE Ok(Union(inputs, inputs[1].schema, alias))))
           ELSE Err("NotImplemented", "Only UNION ALL is supported")
      [] OTHER -> Err("NotImplemented", "Query not implemented yet")

\* query_to_plan_with_alias applying LIMIT before ORDER BY
query_to_plan_with_alias_limit_first(query, alias) ==
    Try(set_expr_to_plan(query.body, alias), LAMBDA plan :
    Try(limit(plan, query.limit), LAMBDA limited :
        order_by(limited, query.order_by)))

\* SqlToRel::query_to_plan_with_alias
query_to_plan_with_alias(query, alias) ==
    Try(set_expr_to_plan(query.body, alias), LAMBDA plan :
    Try(order_by(plan, query.order_by), LAMBDA sorted :
        limit(sorted, query.limit)))

\* query_to_plan on a planner that keeps the plan of its last successful call
\* and hands it out again
query_to_plan_memo(query) ==
    IF \E i \in 1..Len(outcome) : IsOk(outcome[i].result)
    THEN outcome[CHOOSE i \in 1..Len(outcome) :
                   /\ IsOk(outcome[i].result)
                   /\ \A j \in (i + 1)..Len(outcome) : ~IsOk(outcome[j].result)].result
    ELSE query_to_plan_with_alias(query, <<>>)

\* SqlToRel::query_to_plan
query_to_plan(query) == query_to_plan_with_alias(query, <<>>)

\* SqlToRel::sql_statement_to_plan
sql_statement_to_plan(sql) ==
    IF sql.k = "Query" THEN query_to_plan(sql.query)
    ELSE Err("NotImplemented", "Only SELECT statements are implemented")

-----------------------------------------------------------------------------
(* StatementLowerer                                                        *)

\* SqlToRel::build_schema
build_schema(columns) ==
    Collect([i \in 1..Len(columns) |->
               Try(make_data_type(columns[i].data_type), LAMBDA data_type :
                   Ok(Field(<<columns[i].name>>, data_type,
                            "Null" \in Range(columns[i].options))))])

\* external_table_to_plan with the column types mapped before the semantic
\* checks on the file type
external_table_to_plan_types_first(statement) ==
    Try(build_schema(statement.columns), LAMBDA schema :
        IF statement.file_type = "CSV" /\ Len(statement.columns) = 0
        THEN Err("Plan", "Column definitions required for CSV files. None found")
        ELSE IF statement.file_type = "Parquet" /\ Len(statement.columns) # 0
        THEN Err("Plan", "Column definitions can not be specified for PARQUET files.")
        ELSE Ok(Plan("CreateExternalTable", statement.name, <<>>, <<>>, <<>>, schema, <<>>,
                     <<statement.file_type, statement.has_header, statement.location>>)))

\* SqlToRel::external_table_to_plan
external_table_to_plan(statement) ==
    IF statement.file_type = "CSV" /\ Len(statement.columns) = 0
    THEN Err("Plan", "Column definitions required for CSV files. None found")
    ELSE IF statement.file_type = "Parquet" /\ Len(statement.columns) # 0
    THEN Err("Plan", "Column definitions can not be specified for PARQUET files.")
    ELSE Try(build_schema(statement.columns), LAMBDA schema :
             Ok(Plan("CreateExternalTable", statement.name, <<>>, <<>>, <<>>, schema, <<>>,
                     <<statement.file_type, statement.has_header, statement.location>>)))

\* LogicalPlan::explain_schema
explain_schema == <<Field(<<"plan_type">>, "Utf8", FALSE), Field(<<"plan">>, "Utf8", FALSE)>>

RECURSIVE statement_to_plan(_)
\* SqlToRel::explain_statement_to_plan
explain_statement_to_plan(explain_plan) ==
    Try(statement_to_plan(explain_plan.statement), LAMBDA plan :
        Ok(Plan("Explain", "", <<>>, <<>>, <<plan>>, explain_schema, <<>>,
                <<explain_plan.verbose>>)))

\* SqlToRel::statement_to_plan
statement_to_plan(statement) ==
    CASE statement.k = "CreateExternalTable" -> external_table_to_plan(statement)
      [] statement.k = "Statement" -> sql_statement_to_plan(statement.s)
      [] statement.k = "Explain" -> explain_statement_to_plan(statement)

-----------------------------------------------------------------------------
(* Shorthands for writing statements                                       *)

Id(x) == SIdent(<<x>>)
Num(x) == SNumber(<<x>>)
Fn(f, args) == SFunc(f, args, FALSE)
Person == <<TableWithJoins(TableFactorTable("person", <<>>), <<>>)>>
SelectFrom(projection, from, group_by) == Select(projection, from, NoExpr, group_by, NoExpr)
PlainQuery(select) == Query(SetExprSelect(select), <<>>, NoExpr)
QueryStatement(query) == DFStatementStatement(StatementQuery(query))

-----------------------------------------------------------------------------
(* The statements the model translates                                     *)

MaxSelectItems == 2   \* longest projection list of the aggregate queries
MaxGroupBy == 2       \* longest GROUP BY list of the aggregate queries

MinAge == Fn("MIN", <<Id("age")>>)
CountState == Fn("COUNT", <<Id("state")>>)

\* select items: columns, aggregates, an aliased aggregate, an aggregate under
\* a cast, and composites over aggregates with and without a bare column
SelectItemPool ==
    {UnnamedExpr(Id("state")), UnnamedExpr(Id("age")), UnnamedExpr(MinAge),
     ExprWithAlias(MinAge, <<"m">>), UnnamedExpr(SCast(MinAge, "BigInt")),
     UnnamedExpr(SBinary(MinAge, "Plus", Id("age"))),
     UnnamedExpr(SBinary(MinAge, "Plus", CountState))}

\* GROUP BY items: a column and positional indexes, 0 and past-the-end included
GroupByPool == {Id("state"), Num("0"), Num("1"), Num("2")}

\* SELECT <items> FROM person GROUP BY <items>
AggregateStatements ==
    {QueryStatement(PlainQuery(SelectFrom(projection, Person, group_by))) :
        projection \in SeqsUpTo(SelectItemPool, MaxSelectItems) \ {<<>>},
        group_by \in SeqsUpTo(GroupByPool, MaxGroupBy)}

MaxUnionDepth == 2    \* nesting depth of the UNION ALL trees

NoSuch == Id("nosuch")   \* an identifier no schema of the model has
StateIsCO == SBinary(Id("state"), "Eq", SString("CO"))

\* SELECT id FROM person ORDER BY id LIMIT 1, the subquery of a derived table
DerivedQuery ==
    Query(SetExprSelect(SelectFrom(<<UnnamedExpr(Id("id"))>>, Person, <<>>)),
          <<OrderByExpr(Id("id"), "none", "none")>>, Num("1"))

\* FROM clauses: none, a table, an unknown table, a table with a JOIN, two
\* tables, a derived table, a nested join
FromPool ==
    {<<>>, Person,
     <<TableWithJoins(TableFactorTable("nosuch", <<>>), <<>>)>>,
     <<TableWithJoins(TableFactorTable("person", <<>>), <<"aggregate_test_100">>)>>,
     <<TableWithJoins(TableFactorTable("person", <<>>), <<>>),
       TableWithJoins(TableFactorTable("aggregate_test_100", <<>>), <<>>)>>,
     <<TableWithJoins(TableFactorDerived(DerivedQuery, <<<<"t">>>>), <<>>)>>,
     <<TableWithJoins(TableFactorNestedJoin, <<>>)>>}

ProjectionPool ==
    {<<UnnamedExpr(Id("id"))>>, <<UnnamedExpr(MinAge)>>, <<ItemWildcard>>,
     <<QualifiedWildcard("person")>>, <<UnnamedExpr(NoSuch)>>,
     <<UnnamedExpr(SNumber(<<"1", ".", "2", ".", "3">>))>>}

SelectionPool == {NoExpr, StateIsCO, SBinary(NoSuch, "Eq", Num("1"))}
ClauseGroupByPool == {<<>>, <<Id("id")>>, <<NoSuch>>}
HavingPool == {NoExpr, SBinary(MinAge, "Gt", Num("1"))}
OrderByPool ==
    {<<>>, <<OrderByExpr(Id("id"), "false", "false")>>, <<OrderByExpr(NoSuch, "none", "none")>>}
LimitPool == {NoExpr, Num("1"), SNumber(<<"1", ".", "5">>), NoSuch}

\* single SELECTs with every combination of clauses
ClauseStatements ==
    {QueryStatement(Query(SetExprSelect(Select(projection, from, selection, group_by, having)),
                          order, lim)) :
        projection \in ProjectionPool, from \in FromPool, selection \in SelectionPool,
        group_by \in ClauseGroupByPool, having \in HavingPool,
        order \in OrderByPool, lim \in LimitPool}

\* the SELECTs combined by set operations: two with the field id of different
\* types, and one over an unknown table
UnionLeaves ==
    {SetExprSelect(SelectFrom(<<UnnamedExpr(Id("id"))>>, Person, <<>>)),
     SetExprSelect(SelectFrom(<<ExprWithAlias(Id("age"), <<"id">>)>>, Person, <<>>)),
     SetExprSelect(SelectFrom(<<UnnamedExpr(Id("id"))>>,
                              <<TableWithJoins(TableFactorTable("nosuch", <<>>), <<>>)>>, <<>>))}

RECURSIVE UnionTrees(_)
\* UNION ALL trees of the leaves, nested on either side up to depth d
UnionTrees(d) ==
    IF d = 0 THEN UnionLeaves
    ELSE UnionLeaves \cup {SetOperation("Union", TRUE, l, r) :
                             l \in UnionTrees(d - 1), r \in UnionTrees(d - 1)}

\* set operations other than UNION ALL, and a body that is no SELECT
OtherSetExprs ==
    {SetOperation(op[1], op[2], l, r) :
        op \in {<<"Union", FALSE>>, <<"Intersect", TRUE>>, <<"Except", FALSE>>},
        l \in UnionLeaves, r \in UnionLeaves}
    \cup {SetExprValues}

SetStatements ==
    {QueryStatement(Query(body, <<>>, NoExpr)) : body \in UnionTrees(MaxUnionDepth)}
    \cup {QueryStatement(Query(body, <<>>, NoExpr)) : body \in OtherSetExprs}
    \cup {QueryStatement(Query(SetOperation("Union", TRUE, l, r),
                               <<OrderByExpr(Id("id"), "none", "none")>>, Num("1"))) :
             l \in UnionLeaves, r \in OtherSetExprs \cup UnionLeaves}

\* three SELECTs of one schema and different plans
IdOfPerson == SetExprSelect(SelectFrom(<<UnnamedExpr(Id("id"))>>, Person, <<>>))
IdOfCO == SetExprSelect(Select(<<UnnamedExpr(Id("id"))>>, Person, StateIsCO, <<>>, NoExpr))
IdGrouped == SetExprSelect(SelectFrom(<<UnnamedExpr(Id("id"))>>, Person, <<Id("id")>>))
UnionAll(l, r) == SetOperation("Union", TRUE, l, r)

\* UNION ALL trees of the three, nested to the left, to the right, on both
\* sides, and three operations deep
NestedUnionStatements ==
    {QueryStatement(Query(body, <<>>, NoExpr)) :
        body \in {UnionAll(UnionAll(IdOfPerson, IdOfCO), IdGrouped),
                  UnionAll(IdOfPerson, UnionAll(IdOfCO, IdGrouped)),
                  UnionAll(UnionAll(IdOfPerson, IdOfCO), UnionAll(IdGrouped, IdOfPerson)),
                  UnionAll(UnionAll(UnionAll(IdOfPerson, IdOfCO), IdGrouped), IdOfPerson),
                  UnionAll(IdGrouped, UnionAll(IdOfCO, UnionAll(IdOfPerson, IdOfCO)))}}

\* projections whose aggregates sit below operators, aliases, function calls,
\* casts, tests and a UDF, with and without the group column
RewritePool ==
    {<<UnnamedExpr(Id("age")), UnnamedExpr(SBinary(SCast(MinAge, "BigInt"), "Plus", CountState))>>,
     <<UnnamedExpr(Id("age")), UnnamedExpr(SBinary(SIsNull(MinAge), "Or", SIsNull(CountState)))>>,
     <<UnnamedExpr(Id("age")),
       UnnamedExpr(SBinary(SUnary("Not", SIsNull(MinAge)), "And",
                           SBinary(CountState, "Gt", Num("1"))))>>,
     <<ExprWithAlias(SBinary(MinAge, "Multiply", CountState), <<"x">>), UnnamedExpr(Id("age"))>>,
     <<UnnamedExpr(Fn("SQRT", <<SBinary(MinAge, "Plus", Id("age"))>>)), UnnamedExpr(Id("age"))>>,
     <<UnnamedExpr(SBinary(SCast(MinAge, "BigInt"), "Plus", CountState))>>,
     <<UnnamedExpr(Fn("my_sqrt", <<MinAge>>))>>}

\* SELECT <projection> FROM person [GROUP BY age] [ORDER BY ..] [LIMIT 1]
RewriteStatements ==
    {QueryStatement(Query(SetExprSelect(SelectFrom(projection, Person, group_by)), <<>>, lim)) :
        projection \in RewritePool, group_by \in {<<>>, <<Id("age")>>, <<Num("1")>>, <<Num("2")>>},
        lim \in {NoExpr, Num("1")}}

\* LIMIT expressions beyond LimitPool: a string, a column, a variable,
\* computed expressions, and integer literals alone and in parentheses
WideLimitPool ==
    {SString("a"), Id("id"), SIdent(<<"@", "n">>), SBinary(Num("1"), "Plus", Num("1")),
     SCast(Num("1"), "BigInt"), Num("0"), SNumber(<<"1", "0">>), SNested(Num("5"))}

\* SELECT id FROM person [WHERE ..] [ORDER BY id] LIMIT <expression>
LimitStatements ==
    {QueryStatement(Query(SetExprSelect(Select(<<UnnamedExpr(Id("id"))>>, Person, selection,
                                               <<>>, NoExpr)), order, lim)) :
        selection \in {NoExpr, StateIsCO},
        order \in {<<>>, <<OrderByExpr(Id("id"), "false", "false")>>},
        lim \in WideLimitPool}

\* statements that are no queries
ColumnsPool ==
    {<<>>, <<ColumnDef("c1", "Int", <<>>)>>,
     <<ColumnDef("c1", "Int", <<"Null">>), ColumnDef("c2", "Varchar", <<"NotNull">>)>>,
     <<ColumnDef("c1", "Uuid", <<>>)>>}

OtherStatements ==
    {CreateExternalTable("t", columns, file_type, has_header, "foo") :
        columns \in ColumnsPool, file_type \in {"CSV", "Parquet", "NdJson"},
        has_header \in BOOLEAN}
    \cup {DFStatementStatement(StatementOther)}
    \cup {DFStatementExplain(verbose, QueryStatement(PlainQuery(SelectFrom(projection, Person, <<>>)))) :
             verbose \in BOOLEAN, projection \in ProjectionPool}

-----------------------------------------------------------------------------
(* The state machine: one call of statement_to_plan on a planner           *)

NoOutcome == [tag |-> "None"]

\* the statement handed to the planner is any statement of the families
Init ==
    /\ \/ stmt \in AggregateStatements
       \/ stmt \in ClauseStatements
       \/ stmt \in LimitStatements
       \/ stmt \in RewriteStatements
       \/ stmt \in SetStatements
       \/ stmt \in NestedUnionStatements
       \/ stmt \in OtherStatements
    /\ overflow_checks \in BOOLEAN
    /\ pc = "ready"
    /\ outcome = NoOutcome

\* the caller invokes statement_to_plan(stmt); a panic unwinds out of it
StatementToPlan ==
    /\ pc = "ready"
    /\ outcome' = statement_to_plan(stmt)
    /\ pc' = IF IsPanic(outcome') THEN "aborted" ELSE "done"
    /\ UNCHANGED <<stmt, overflow_checks>>

Next == StatementToPlan

Spec == Init /\ [][Next]_vars

-----------------------------------------------------------------------------
(* Vocabulary of the properties                                            *)

Returned == pc = "done"
Accepted == pc = "done" /\ IsOk(outcome)

IsQueryStatement(s) == s.k = "Statement" /\ s.s.k = "Query"
TopSelect == IsQueryStatement(stmt) /\ stmt.s.query.body.k = "Select"
TheQuery == stmt.s.query
TheSelect == stmt.s.query.body.select

RECURSIVE PlanNodes(_)
\* the nodes of a plan
PlanNodes(p) == {p} \cup UNION {PlanNodes(p.inputs[i]) : i \in 1..Len(p.inputs)}

RECURSIVE SubExprs(_)
\* an expression and everything nested in it
SubExprs(e) == {e} \cup UNION {SubExprs(e.a[i]) : i \in 1..Len(e.a)}

IsAggregateNode(e) == e.k \in {"AggregateFunction", "AggregateUDF"}

\* the steps of the top-level SELECT up to the choice of its branch
StageFrom == from_join_to_plan(TheSelect.from)
StageFilter == filter(StageFrom.v, TheSelect.selection)
StageProjection ==
    Collect([i \in 1..Len(TheSelect.projection) |->
               sql_select_to_rex(TheSelect.projection[i], StageFilter.v.schema,
                                 aliased_schema(StageFilter.v))])
StageAggr == collect_aggr_expr(StageProjection.v)
ProjectionLowered ==
    /\ TopSelect
    /\ TheSelect.having = NoExpr
    /\ IsOk(StageFrom) /\ IsOk(StageFilter) /\ IsOk(StageProjection) /\ IsOk(StageAggr)
InAggregateBranch ==
    ProjectionLowered /\ (Len(TheSelect.group_by) > 0 \/ Len(StageAggr.v) > 0)
StageGroup ==
    Collect([i \in 1..Len(TheSelect.group_by) |->
               group_by_to_rex(TheSelect.group_by[i], StageProjection.v, StageFilter.v)])

\* the plan of the query body: the emitted plan below its Limit and Sort
StripLimit(p) == IF p.node = "Limit" THEN p.inputs[1] ELSE p
StripSort(p) == IF p.node = "Sort" THEN p.inputs[1] ELSE p
BodyPlan == StripSort(StripLimit(outcome.v))

-----------------------------------------------------------------------------
(* C1: unsupported constructs are rejected                                 *)

SelectUsesUnsupported(select) ==
    \/ select.having # NoExpr
    \/ Len(select.from) > 1
    \/ \E i \in 1..Len(select.from) : Len(select.from[i].joins) > 0
    \/ \E i \in 1..Len(select.from) : select.from[i].relation.k \notin {"Table", "Derived"}
    \/ \E i \in 1..Len(select.projection) : select.projection[i].k = "QualifiedWildcard"

RECURSIVE SetExprUsesUnsupported(_)
SetExprUsesUnsupported(set_expr) ==
    CASE set_expr.k = "Select" -> SelectUsesUnsupported(set_expr.select)
      [] set_expr.k = "SetOperation" ->
           \/ ~(set_expr.op = "Union" /\ set_expr.all)
           \/ SetExprUsesUnsupported(set_expr.left)
           \/ SetExprUsesUnsupported(set_expr.right)
      [] OTHER -> FALSE

UsesUnsupported == IsQueryStatement(stmt) /\ SetExprUsesUnsupported(TheQuery.body)

\* C1: a SELECT that uses an unsupported construct (a join, several FROM
\* items, HAVING, a qualified wildcard, a table factor that is neither a table
\* nor a derived subquery, a set operation other than UNION ALL) is never
\* accepted with a plan: statement_to_plan rejects it.
C1_UnsupportedNeverAccepted ==
    (pc # "ready" /\ UsesUnsupported) => ~IsOk(outcome)

-----------------------------------------------------------------------------
(* C2: identifier closure                                                  *)

\* the names of the columns occurring in the expressions of a node
ColumnsOf(node) ==
    {e.s : e \in {x \in UNION {SubExprs(node.expr[i]) : i \in 1..Len(node.expr)}
                          \cup UNION {SubExprs(node.aggr_expr[i]) : i \in 1..Len(node.aggr_expr)} :
                    x.k = "Column"}}

NodeClosed(node) ==
    ColumnsOf(node) # {} => (Len(node.inputs) = 1
                             /\ ColumnsOf(node) \subseteq Range(FieldNames(node.inputs[1].schema)))

-----------------------------------------------------------------------------
(* C3: aggregate purity                                                    *)

\* C3: in every emitted Aggregate no group expression is or contains an
\* AggregateFunction/AggregateUDF, and every aggregate expression is one.
C3_AggregatePurity ==
    Accepted =>
        \A node \in PlanNodes(outcome.v) :
            node.node = "Aggregate" =>
                /\ \A i \in 1..Len(node.expr) :
                       \A e \in SubExprs(node.expr[i]) : ~IsAggregateNode(e)
                /\ \A i \in 1..Len(node.aggr_expr) : IsAggregateNode(node.aggr_expr[i])

-----------------------------------------------------------------------------
(* C4, C5: projection / GROUP BY consistency                               *)

Count(q, x) == Cardinality({i \in 1..Len(q) : q[i] = x})

\* the two lists hold the same names the same number of times
SameMultiset(a, b) == \A x \in Range(a) \cup Range(b) : Count(a, x) = Count(b, x)

\* the names the consistency test of aggregate compares, once the group expressions are lowered
NonAggregateProjection == SelectSeq(StageProjection.v, LAMBDA e : ~is_aggregate_expr(e))
NamesComputed ==
    /\ IsOk(StageGroup)
    /\ IsOk(names_of(StageGroup.v))
    /\ IsOk(names_of(NonAggregateProjection))
GroupNames == names_of(StageGroup.v).v
NonAggregateNames == names_of(NonAggregateProjection).v

NonAggregateValues == Err("Plan", "Projection references non-aggregate values")

\* C4: in the aggregate branch the query is rejected with Plan("Projection
\* references non-aggregate values") exactly when the multiset of names of the
\* group expressions differs from the multiset of names of the non-aggregate
\* projection expressions.
C4_RejectedIffNamesDiffer ==
    (Returned /\ InAggregateBranch /\ NamesComputed) =>
        (outcome = NonAggregateValues <=> ~SameMultiset(GroupNames, NonAggregateNames))

\* a query is rejected although both sides hold the same names: one name
\* occurs a different number of times on the two sides
C4_Witness ==
    /\ Returned /\ InAggregateBranch /\ NamesComputed
    /\ outcome = NonAggregateValues
    /\ Range(GroupNames) = Range(NonAggregateNames)
    /\ Len(GroupNames) # Len(NonAggregateNames)

\* C5 as stated: for every accepted query the multiset of names of the
\* non-aggregate projection expressions equals that of the group expressions.
C5_AcceptedImpliesSameNames ==
    (Accepted /\ ProjectionLowered /\ NamesComputed) =>
        SameMultiset(GroupNames, NonAggregateNames)

\* C5 amended: for every query accepted through the aggregate branch (GROUP BY
\* non-empty or an aggregate collected from the projection) the multiset of
\* names of the non-aggregate projection expressions equals that of the group
\* expressions.
C5_AggregateBranchSameNames ==
    (Accepted /\ InAggregateBranch /\ NamesComputed) =>
        SameMultiset(GroupNames, NonAggregateNames)

\* a query with an aggregate and a group expression is accepted
C5_Witness ==
    /\ Accepted /\ InAggregateBranch /\ NamesComputed
    /\ Len(GroupNames) = 1
    /\ Len(StageAggr.v) > 0

-----------------------------------------------------------------------------
(* C6: union schema equality                                               *)

RECURSIVE UnionLeavesOf(_)
\* the SELECTs of a tree of UNION ALL operations, left to right
UnionLeavesOf(set_expr) ==
    IF set_expr.k = "SetOperation"
    THEN UnionLeavesOf(set_expr.left) \o UnionLeavesOf(set_expr.right)
    ELSE <<set_expr>>

RECURSIVE IsUnionAllTree(_)
IsUnionAllTree(set_expr) ==
    CASE set_expr.k = "Select" -> TRUE
      [] set_expr.k = "SetOperation" ->
           /\ set_expr.op = "Union" /\ set_expr.all
           /\ IsUnionAllTree(set_expr.left) /\ IsUnionAllTree(set_expr.right)
      [] OTHER -> FALSE

\* the statement is a UNION ALL of SELECTs each of which lowers to a plan
UnionOfLoweredSelects ==
    /\ IsQueryStatement(stmt)
    /\ TheQuery.body.k = "SetOperation"
    /\ IsUnionAllTree(TheQuery.body)
    /\ \A i \in 1..Len(UnionLeavesOf(TheQuery.body)) :
           IsOk(select_to_plan(UnionLeavesOf(TheQuery.body)[i].select))

LeafSchemas ==
    [i \in 1..Len(UnionLeavesOf(TheQuery.body)) |->
        select_to_plan(UnionLeavesOf(TheQuery.body)[i].select).v.schema]

\* C6: every emitted Union has all its inputs' schemas equal and carries the
\* schema of its first input; a UNION ALL, at any nesting depth, whose SELECTs
\* do not all have the first one's schema is rejected with an ExecutionError.
C6_UnionSchemaEquality ==
    /\ Accepted =>
           \A node \in PlanNodes(outcome.v) :
               node.node = "Union" =>
                   /\ \A i \in 1..Len(node.inputs) :
                          node.inputs[i].schema = node.inputs[1].schema
                   /\ node.schema = node.inputs[1].schema
    /\ (pc # "ready" /\ UnionOfLoweredSelects
           /\ \E i \in 1..Len(LeafSchemas) : LeafSchemas[i] # LeafSchemas[1]) =>
           (IsErr(outcome) /\ outcome.kind = "ExecutionError")

\* a Union flattened from UNION ALLs nested on both sides has been emitted
C6_Witness ==
    /\ Accepted
    /\ outcome.v.node = "Union"
    /\ Len(outcome.v.inputs) = 4

-----------------------------------------------------------------------------
(* C7: errors are returned as values                                       *)

Lowered(e, plan) == sql_to_rex(e, plan.schema, aliased_schema(plan))

StageBody == set_expr_to_plan(TheQuery.body, <<>>)
StageSorted == order_by(StageBody.v, TheQuery.order_by)

\* the result of lowering the first ORDER BY item that does not lower
FirstOrderByFailure ==
    Collect([i \in 1..Len(TheQuery.order_by) |-> Lowered(TheQuery.order_by[i].expr, StageBody.v)])

\* the call returned the failure f of a lowering as its error
ReturnsFailure(f) == IsErr(outcome) /\ outcome = f

\* C7: whenever lowering an expression fails in a position of a query (WHERE,
\* projection item, GROUP BY item, ORDER BY item, LIMIT, a number literal that
\* is no i64), statement_to_plan returns that error; no position panics.
C7_ErrorsReturned ==
    (pc # "ready" /\ TopSelect /\ TheSelect.having = NoExpr) =>
        /\ (IsOk(StageFrom) /\ ~IsOk(StageFilter)) => ReturnsFailure(StageFilter)
        /\ (IsOk(StageFrom) /\ IsOk(StageFilter) /\ ~IsOk(StageProjection)) =>
               ReturnsFailure(StageProjection)
        /\ (InAggregateBranch /\ ~IsOk(StageGroup)
               /\ \A i \in 1..Len(TheSelect.group_by) : TheSelect.group_by[i].k # "Number") =>
               ReturnsFailure(StageGroup)
        /\ (IsOk(StageBody) /\ ~IsOk(FirstOrderByFailure)) =>
               ReturnsFailure(FirstOrderByFailure)
        /\ (IsOk(StageBody) /\ IsOk(StageSorted) /\ TheQuery.limit # NoExpr
               /\ ~IsOk(Lowered(TheQuery.limit, StageSorted.v))) =>
               ReturnsFailure(Lowered(TheQuery.limit, StageSorted.v))

-----------------------------------------------------------------------------
(* C8: the nesting order of the nodes of a query plan                      *)

StripFilter(p) == IF p.node = "Filter" THEN p.inputs[1] ELSE p

RECURSIVE QueryShape(_)
RECURSIVE SelectShape(_)

\* Projection, Aggregate or Projection over Aggregate; then an optional
\* Filter; then a TableScan, an EmptyRelation or the plan of a derived query
SelectShape(p) ==
    /\ p.node \in {"Projection", "Aggregate"}
    /\ LET core == IF p.node = "Projection" /\ p.inputs[1].node = "Aggregate"
                   THEN p.inputs[1] ELSE p
           relation == StripFilter(core.inputs[1])
       IN  relation.node \in {"TableScan", "EmptyRelation"} \/ QueryShape(relation)

\* an optional Limit, then an optional Sort, then a Union of SELECT plans or
\* one SELECT plan
QueryShape(p) ==
    LET body == StripSort(StripLimit(p))
    IN  IF body.node = "Union"
        THEN \A i \in 1..Len(body.inputs) : SelectShape(body.inputs[i])
        ELSE SelectShape(body)

\* C8: every plan emitted for a query nests, root to leaf: optional Limit,
\* optional Sort, the SELECT's Projection / Aggregate / Projection over
\* Aggregate or a Union, optional Filter, then the TableScan, EmptyRelation or
\* derived-query plan; Limit is never below the Sort of its query. So the
\* columns of a WHERE predicate are fields of the relation below the Filter
\* and the columns of ORDER BY expressions are fields of the output of the
\* node below the Sort.
C8_NestingOrder ==
    (Accepted /\ IsQueryStatement(stmt)) =>
        /\ QueryShape(outcome.v)
        /\ \A node \in PlanNodes(outcome.v) :
               /\ node.node = "Sort" => node.inputs[1].node # "Limit"
               /\ node.node \in {"Filter", "Sort"} =>
                      ColumnsOf(node) \subseteq Range(FieldNames(node.inputs[1].schema))

\* a query with WHERE, ORDER BY and LIMIT has been emitted
C8_Witness ==
    /\ Accepted /\ TopSelect
    /\ outcome.v.node = "Limit"
    /\ outcome.v.inputs[1].node = "Sort"
    /\ outcome.v.inputs[1].inputs[1].node = "Projection"
    /\ outcome.v.inputs[1].inputs[1].inputs[1].node = "Filter"
    /\ outcome.v.inputs[1].inputs[1].inputs[1].inputs[1].node = "TableScan"

-----------------------------------------------------------------------------
(* C9: when the aggregate branch wraps the Aggregate in a Projection       *)

ProjectionNames == names_of(StageProjection.v)

\* the Aggregate node of the body of the emitted plan
BodyAggregate == IF BodyPlan.node = "Aggregate" THEN BodyPlan ELSE BodyPlan.inputs[1]

\* C9: in the aggregate branch the result is the bare Aggregate exactly when
\* the names of the projection expressions equal, in order, the field names
\* of the Aggregate's output schema; otherwise it is a Projection over the
\* Aggregate with one expression per select item, in the user's order.
C9_BareAggregateIffSameNames ==
    (Accepted /\ InAggregateBranch /\ IsOk(ProjectionNames)) =>
        /\ BodyAggregate.node = "Aggregate"
        /\ FieldNames(BodyAggregate.schema)
               = names_of(BodyAggregate.expr \o BodyAggregate.aggr_expr).v
        /\ IF ProjectionNames.v = FieldNames(BodyAggregate.schema)
           THEN BodyPlan.node = "Aggregate"
           ELSE /\ BodyPlan.node = "Projection"
                /\ Len(BodyPlan.expr) = Len(TheSelect.projection)
                /\ names_of(BodyPlan.expr) = ProjectionNames

\* the projection lists the aggregate's columns in another order, and a
\* Projection over the Aggregate has been emitted
C9_Witness ==
    /\ Accepted /\ InAggregateBranch /\ IsOk(ProjectionNames)
    /\ BodyPlan.node = "Projection"
    /\ Range(ProjectionNames.v) = Range(FieldNames(BodyAggregate.schema))
    /\ Len(ProjectionNames.v) = Len(BodyAggregate.schema)

-----------------------------------------------------------------------------
(* C10: positional GROUP BY                                                *)

OutOfRange == Err("General", "Select column reference should be within 1..len")
GroupByAggregate == Err("General", "Can't group by aggregate function")

\* the GROUP BY list is one number literal n
PositionalGroupBy ==
    /\ InAggregateBranch
    /\ Len(TheSelect.group_by) = 1
    /\ TheSelect.group_by[1].k = "Number"
    /\ IsDigits(TheSelect.group_by[1].v)

GroupByIndex == ToNat(TheSelect.group_by[1].v)

\* C10: a GROUP BY number literal n is a 1-based index into the projection:
\* in range it yields projection[n-1], or fails "Can't group by aggregate
\* function" when that is aggregate; every other n, 0 included, fails "Select
\* column reference should be within 1..len".
C10_PositionalGroupBy ==
    (pc # "ready" /\ PositionalGroupBy) =>
        IF GroupByIndex \in 1..Len(StageProjection.v)
        THEN IF is_aggregate_expr(StageProjection.v[GroupByIndex])
             THEN outcome = GroupByAggregate
             ELSE StageGroup = Ok(<<StageProjection.v[GroupByIndex]>>)
        ELSE outcome = OutOfRange

-----------------------------------------------------------------------------
(* Direct calls of the public lowering functions                           *)

\* the schema of a registered table
SchemaOf(table) == get_table_meta(table).v

\* names of function calls: built-ins in either case, the special form, UDFs
\* and UDAFs registered in lower or in upper case, names registered in several
\* places, and a name registered nowhere
FunctionNamePool ==
    {"sqrt", "SQRT", "NULLIF", "min", "MIN", "COUNT", "my_sqrt", "MY_SQRT", "my_upper",
     "my_avg", "MY_AVG", "my_max", "nosuch", "NOSUCH"}

\* argument lists: columns, number literals, the wildcard, an unknown column,
\* and literals below a nested expression or an inner call
FunctionArgsPool ==
    {<<>>, <<Id("age")>>, <<Num("1")>>, <<SNumber(<<"1", ".", "5">>)>>, <<SWildcard>>,
     <<NoSuch>>, <<SString("a")>>, <<SNested(Num("1"))>>, <<Fn("MIN", <<Num("1")>>)>>,
     <<Id("age"), Num("2")>>, <<Num("2"), NoSuch>>}

FunctionCalls ==
    {SFunc(f, args, distinct) :
        f \in FunctionNamePool, args \in FunctionArgsPool, distinct \in BOOLEAN}

\* identifiers: fields, an unknown name, and names starting with '@'
IdentifierPool ==
    {Id("age"), Id("c1"), NoSuch, SIdent(<<"@", "v">>), SIdent(<<"@", "age">>),
     SIdent(<<"@">>), SIdent(<<"@", "@", "v">>)}

\* compound identifiers: behind an alias, behind an unknown qualifier, and
\* behind a first part starting with '@'
CompoundIdentifierPool ==
    {SCompound(<<Id(q), Id(c)>>) : q \in {"t", "person", "u"}, c \in {"age", "nosuch"}}
    \cup {SCompound(<<Id("t"), Id("age"), Id("x")>>),
          SCompound(<<SIdent(<<"@", "v">>), Id("age")>>),
          SCompound(<<SIdent(<<"@", "t">>), Id("nosuch"), Id("x")>>),
          SCompound(<<SIdent(<<"@", "@", "g">>), Id("x")>>)}

\* expressions built over identifiers
ComposedPool ==
    {SBinary(l, "Plus", Num("1")) : l \in IdentifierPool \cup CompoundIdentifierPool}
    \cup {SIsNull(e) : e \in IdentifierPool \cup CompoundIdentifierPool}

RexSchemaPool == {<<>>, SchemaOf("person"), SchemaOf("aggregate_test_100")}
RexAliasPool == {{}, {<<"t">>}, {<<"t">>, <<"person">>}}

\* the arguments of one call of sql_to_rex
SqlToRexCall(sql, schema, aliases) ==
    [k |-> "sql_to_rex", sql |-> sql, schema |-> schema, aliased_schema |-> aliases]

RexCalls(pool) ==
    {SqlToRexCall(sql, schema, aliases) :
        sql \in pool, schema \in RexSchemaPool, aliases \in RexAliasPool}

\* the variants of sqlparser's SQLDataType (length and precision dropped: no
\* mapping looks at them)
SqlTypePool ==
    {"Char", "Varchar", "Uuid", "Clob", "Binary", "Varbinary", "Blob", "Decimal", "Float",
     "SmallInt", "Int", "BigInt", "Real", "Double", "Boolean", "Date", "Time", "Timestamp",
     "Interval", "Regclass", "Text", "Bytea", "Custom", "Array"}

\* the argument of one call of a type mapping
TypeCalls == {[k |-> f, sql_type |-> t] : f \in {"make_data_type", "convert_data_type"},
                                         t \in SqlTypePool}

\* SELECT id FROM (SELECT id FROM person UNION ALL SELECT id ... = 'CO') AS t
IdOfDerivedUnion ==
    SetExprSelect(SelectFrom(<<UnnamedExpr(Id("id"))>>,
        <<TableWithJoins(TableFactorDerived(Query(UnionAll(IdOfPerson, IdOfCO), <<>>, NoExpr),
                                            <<<<"t">>>>), <<>>)>>, <<>>))

\* query bodies: SELECTs, one over an unknown table and one over an aliased
\* derived UNION ALL; UNION ALL trees, one with differing schemas; another set
\* operation; VALUES
AliasBodyPool ==
    {IdOfPerson, IdOfCO, IdGrouped, IdOfDerivedUnion,
     SetExprSelect(SelectFrom(<<UnnamedExpr(Id("id"))>>,
                              <<TableWithJoins(TableFactorTable("nosuch", <<>>), <<>>)>>, <<>>)),
     UnionAll(IdOfPerson, IdOfCO),
     UnionAll(UnionAll(IdOfPerson, IdOfCO), IdGrouped),
     UnionAll(IdOfCO, UnionAll(IdGrouped, IdOfPerson)),
     UnionAll(IdOfDerivedUnion, IdOfPerson),
     UnionAll(IdOfPerson,
              SetExprSelect(SelectFrom(<<ExprWithAlias(Id("age"), <<"id">>)>>, Person, <<>>))),
     SetOperation("Intersect", FALSE, IdOfPerson, IdOfCO),
     SetExprValues}

\* ORDER BY lists: none, a column, a column behind the alias t
AliasOrderByPool ==
    {<<>>, <<OrderByExpr(Id("id"), "none", "none")>>,
     <<OrderByExpr(SCompound(<<Id("t"), Id("id")>>), "none", "none")>>}

\* the alias argument: None, Some("t"), Some("u")
AliasPool == {<<>>, <<<<"t">>>>, <<<<"u">>>>}

\* the arguments of one call of query_to_plan_with_alias
QueryCalls ==
    {[k |-> "query_to_plan_with_alias", query |-> Query(body, order, lim), alias |-> alias] :
        body \in AliasBodyPool, order \in AliasOrderByPool, lim \in {NoExpr, Num("1")},
        alias \in AliasPool}

\* a caller holds the arguments of one call of a lowering function
FnInit ==
    /\ \/ stmt \in QueryCalls
       \/ stmt \in RexCalls(FunctionCalls)
       \/ stmt \in RexCalls(IdentifierPool \cup CompoundIdentifierPool)
       \/ stmt \in RexCalls(ComposedPool)
       \/ stmt \in TypeCalls
    /\ overflow_checks \in BOOLEAN
    /\ pc = "ready"
    /\ outcome = NoOutcome

\* the caller invokes sql_to_rex(sql, schema, aliased_schema)
SqlToRex ==
    /\ pc = "ready"
    /\ stmt.k = "sql_to_rex"
    /\ outcome' = sql_to_rex(stmt.sql, stmt.schema, stmt.aliased_schema)
    /\ pc' = IF IsPanic(outcome') THEN "aborted" ELSE "done"
    /\ UNCHANGED <<stmt, overflow_checks>>

\* build_schema invokes make_data_type(sql_type) on a column's type
MakeDataType ==
    /\ pc = "ready"
    /\ stmt.k = "make_data_type"
    /\ outcome' = make_data_type(stmt.sql_type)
    /\ pc' = "done"
    /\ UNCHANGED <<stmt, overflow_checks>>

\* the caller invokes convert_data_type(sql)
ConvertDataType ==
    /\ pc = "ready"
    /\ stmt.k = "convert_data_type"
    /\ outcome' = convert_data_type(stmt.sql_type)
    /\ pc' = "done"
    /\ UNCHANGED <<stmt, overflow_checks>>

\* the caller invokes query_to_plan_with_alias(query, alias)
QueryToPlanWithAlias ==
    /\ pc = "ready"
    /\ stmt.k = "query_to_plan_with_alias"
    /\ outcome' = query_to_plan_with_alias(stmt.query, stmt.alias)
    /\ pc' = IF IsPanic(outcome') THEN "aborted" ELSE "done"
    /\ UNCHANGED <<stmt, overflow_checks>>

FnNext == SqlToRex \/ MakeDataType \/ ConvertDataType \/ QueryToPlanWithAlias

FnSpec == FnInit /\ [][FnNext]_vars

-----------------------------------------------------------------------------
(* Vocabulary of the properties of direct calls                            *)

RexCalled == stmt.k = "sql_to_rex" /\ pc # "ready"
RexReturned == stmt.k = "sql_to_rex" /\ pc = "done"

\* the lowering of the call's i-th operand on its own
OperandLowered(i) == sql_to_rex(stmt.sql.a[i], stmt.schema, stmt.aliased_schema)

-----------------------------------------------------------------------------
(* C11: function resolution order                                          *)

FunctionCalled == RexReturned /\ stmt.sql.k = "Function"
CalledName == to_lowercase(stmt.sql.v[1])
OperandsLower == \A i \in 1..Len(stmt.sql.a) : IsOk(OperandLowered(i))
InvalidFunction == Err("Plan", invalid_function(CalledName))

\* the sources a name is found in
IsBuiltinScalar(n) == n \in BuiltinScalarFunctions
IsBuiltinAggregate(n) == n \in BuiltinAggregateFunctions
IsScalarUDF(n) == IsOk(get_function_meta(n)) \/ IsOk(get_function_meta(to_uppercase(n)))
IsAggregateUDF(n) == IsOk(get_aggregate_meta(n)) \/ IsOk(get_aggregate_meta(to_uppercase(n)))
RegisteredScalarUDF(n) ==
    IF IsOk(get_function_meta(n)) THEN n ELSE to_uppercase(n)
RegisteredAggregateUDF(n) ==
    IF IsOk(get_aggregate_meta(n)) THEN n ELSE to_uppercase(n)

\* the call came out as the variant k of the function fun
ResolvedAs(k, fun) == IsOk(outcome) /\ outcome.v.k = k /\ outcome.v.s = <<fun>>

\* C11: a function call is resolved on its lowercased name by the first match
\* among: built-in scalar function, the NULLIF special form, built-in
\* aggregate, scalar UDF of the provider (lowercase name, then uppercase),
\* aggregate UDF of the provider (lowercase, then uppercase). A later source is
\* consulted only when every earlier one misses, and a name found nowhere
\* fails with Plan("Invalid function '<name>'").
C11_ResolutionOrder ==
    /\ (FunctionCalled /\ OperandsLower /\ (CalledName = "nullif" => Len(stmt.sql.a) = 2)) =>
          IF IsBuiltinScalar(CalledName) THEN ResolvedAs("ScalarFunction", CalledName)
          ELSE IF CalledName = "nullif" THEN ResolvedAs("ScalarFunction", "if")
          ELSE IF IsBuiltinAggregate(CalledName) THEN ResolvedAs("AggregateFunction", CalledName)
          ELSE IF IsScalarUDF(CalledName)
               THEN ResolvedAs("ScalarUDF", RegisteredScalarUDF(CalledName))
          ELSE IF IsAggregateUDF(CalledName)
               THEN ResolvedAs("AggregateUDF", RegisteredAggregateUDF(CalledName))
          ELSE outcome = InvalidFunction
    /\ FunctionCalled =>
          (outcome = InvalidFunction <=>
             ~(\/ IsBuiltinScalar(CalledName) \/ CalledName = "nullif"
               \/ IsBuiltinAggregate(CalledName)
               \/ IsScalarUDF(CalledName) \/ IsAggregateUDF(CalledName)))

\* a call of a built-in's name that the provider also registers as a UDF has
\* been resolved to the built-in
C11_Witness ==
    /\ FunctionCalled
    /\ IsBuiltinAggregate(CalledName) /\ IsScalarUDF(CalledName)
    /\ ResolvedAs("AggregateFunction", CalledName)

-----------------------------------------------------------------------------
(* C12: the two type mappings                                              *)

TypeMapped == stmt.k \in {"make_data_type", "convert_data_type"} /\ pc = "done"
InDDL == stmt.k = "make_data_type"

\* the table of the mapping: the engine type of a SQL type at a call site, or
\* "none" where the table has no row
TypeTable(t, ddl) ==
    CASE t = "Boolean" -> "Boolean"
      [] t = "SmallInt" -> "Int16"
      [] t = "Int" -> "Int32"
      [] t = "BigInt" -> "Int64"
      [] t \in {"Real", "Double"} -> "Float64"
      [] t \in {"Char", "Varchar", "Text"} -> "Utf8"
      [] t = "Float" -> IF ddl THEN "Float32" ELSE "Float64"
      [] t = "Timestamp" -> IF ddl THEN "Date64(Millisecond)" ELSE "Timestamp(Nanosecond, None)"
      [] t = "Decimal" -> IF ddl THEN "Float64" ELSE "none"
      [] t = "Date" -> IF ddl THEN "Date64(Day)" ELSE "none"
      [] t = "Time" -> IF ddl THEN "Time64(Millisecond)" ELSE "none"
      [] OTHER -> "none"

\* C12: both type mappings are total and agree with the table: BOOLEAN,
\* SMALLINT, INT, BIGINT, REAL, DOUBLE, CHAR, VARCHAR and TEXT map alike in
\* make_data_type (DDL) and convert_data_type (CAST); FLOAT and TIMESTAMP map
\* differently at the two sites; DECIMAL, DATE and TIME are mapped only in
\* DDL; every other type fails with NotImplemented.
C12_TypeMappings ==
    TypeMapped =>
        IF TypeTable(stmt.sql_type, InDDL) = "none"
        THEN IsErr(outcome) /\ outcome.kind = "NotImplemented"
        ELSE outcome = Ok(TypeTable(stmt.sql_type, InDDL))

-----------------------------------------------------------------------------
(* C13: CREATE EXTERNAL TABLE                                              *)

CreateReturned == stmt.k = "CreateExternalTable" /\ pc # "ready"
ColumnsRequired == Err("Plan", "Column definitions required for CSV files. None found")
ColumnsForbidden ==
    Err("Plan", "Column definitions can not be specified for PARQUET files.")

\* C13: CREATE EXTERNAL TABLE is rejected with "Column definitions required
\* for CSV files. None found" exactly when the file type is CSV and there are
\* no columns, and with "Column definitions can not be specified for PARQUET
\* files." exactly when it is PARQUET and there are columns (whatever their
\* types: the check comes before the types are mapped); NDJSON is never
\* rejected by it. An accepted statement yields CreateExternalTable whose
\* schema has one field per column, in order, nullable iff the column carries
\* the NULL option.
C13_ExternalTable ==
    CreateReturned =>
        /\ outcome = ColumnsRequired <=>
              (stmt.file_type = "CSV" /\ Len(stmt.columns) = 0)
        /\ outcome = ColumnsForbidden <=>
              (stmt.file_type = "Parquet" /\ Len(stmt.columns) # 0)
        /\ IsOk(outcome) =>
              /\ outcome.v.node = "CreateExternalTable"
              /\ Len(outcome.v.schema) = Len(stmt.columns)
              /\ \A i \in 1..Len(stmt.columns) :
                    /\ outcome.v.schema[i].name = <<stmt.columns[i].name>>
                    /\ outcome.v.schema[i].nullable <=>
                          ("Null" \in Range(stmt.columns[i].options))

\* a CSV statement has been accepted with a nullable and a non-nullable field
C13_Witness ==
    /\ CreateReturned
    /\ stmt.file_type = "CSV" /\ IsOk(outcome)
    /\ \E i, j \in 1..Len(outcome.v.schema) :
          outcome.v.schema[i].nullable /\ ~outcome.v.schema[j].nullable

-----------------------------------------------------------------------------
(* C14: variables and columns                                              *)

IdentifierCalled ==
    RexCalled /\ stmt.sql.k \in {"Identifier", "CompoundIdentifier"}

\* the parts of the identifier as written
IdentifierParts ==
    IF stmt.sql.k = "Identifier" THEN <<stmt.sql.v>>
    ELSE [i \in 1..Len(stmt.sql.a) |-> stmt.sql.a[i].v]

StartsWithAt == Head(IdentifierParts[1]) = "@"

\* C14: an identifier, simple or compound, whose first part starts with '@'
\* lowers to ScalarVariable(parts) whatever the schema and the alias map are,
\* and never to a Column; any other identifier lowers, if at all, to
\* Column(name) with name a field of the current schema, and never to a
\* ScalarVariable.
C14_VariablesAndColumns ==
    IdentifierCalled =>
        IF StartsWithAt THEN outcome = Ok(ScalarVariable(IdentifierParts))
        ELSE IsOk(outcome) =>
               /\ outcome.v.k = "Column"
               /\ \E i \in 1..Len(stmt.schema) : stmt.schema[i].name = outcome.v.s

\* a compound identifier behind '@' has been lowered against a schema without
\* its second part and an alias map without its first part
C14_Witness ==
    /\ IdentifierCalled /\ pc = "done"
    /\ stmt.sql.k = "CompoundIdentifier" /\ StartsWithAt
    /\ IdentifierParts[1] \notin stmt.aliased_schema
    /\ ~IsOk(field_with_name(stmt.schema, IdentifierParts[2]))
    /\ IsOk(outcome) /\ outcome.v.k = "ScalarVariable"

-----------------------------------------------------------------------------
(* C15: failures on unresolvable identifiers                               *)

\* the identifier cannot be resolved: a simple identifier absent from the
\* schema, a compound identifier whose first part is no alias, or one whose
\* first part is an alias and whose second part is absent from the schema
Unresolvable ==
    /\ ~StartsWithAt
    /\ IF stmt.sql.k = "Identifier"
       THEN ~IsOk(field_with_name(stmt.schema, IdentifierParts[1]))
       ELSE \/ IdentifierParts[1] \notin stmt.aliased_schema
            \/ ~IsOk(field_with_name(stmt.schema, IdentifierParts[2]))

\* C15: every failure of the lowering caused by an unresolvable identifier is
\* of kind Plan, in each of the three cases: a simple identifier absent from
\* the schema, a compound identifier whose first part is not an alias key,
\* and a compound identifier whose first part is a known alias but whose
\* second part is absent from the schema.
C15_UnresolvableIsPlan ==
    (IdentifierCalled /\ Unresolvable) => (IsErr(outcome) /\ outcome.kind = "Plan")

-----------------------------------------------------------------------------
(* C16: the arguments of built-in aggregates                               *)

One == Literal("UInt8", <<"1">>)

\* a call resolved to a built-in aggregate has been lowered
AggregateLowered ==
    /\ FunctionCalled /\ IsOk(outcome)
    /\ ~IsBuiltinScalar(CalledName) /\ CalledName # "nullif"
    /\ IsBuiltinAggregate(CalledName)

NumberOrWildcard(a) == a.k \in {"Number", "Wildcard"}

\* C16: in a call of the built-in aggregate COUNT each direct argument that is
\* a number literal or the wildcard is replaced by Literal(UInt8 1) and every
\* other argument is lowered normally; every other built-in aggregate lowers
\* all its arguments normally, a number literal staying an Int64 or Float64
\* literal; the distinct flag is copied from the call.
C16_AggregateArguments ==
    AggregateLowered =>
        /\ outcome.v.k = "AggregateFunction"
        /\ outcome.v.d = stmt.sql.d
        /\ Len(outcome.v.a) = Len(stmt.sql.a)
        /\ \A i \in 1..Len(stmt.sql.a) :
              IF CalledName = "count" /\ NumberOrWildcard(stmt.sql.a[i])
              THEN outcome.v.a[i] = One
              ELSE /\ outcome.v.a[i] = OperandLowered(i).v
                   /\ stmt.sql.a[i].k = "Number" =>
                         /\ outcome.v.a[i].k = "Literal"
                         /\ outcome.v.a[i].s[1] \in {"Int64", "Float64"}

\* COUNT(DISTINCT age, 2) has been lowered: a column kept and a number
\* replaced
C16_Witness ==
    /\ AggregateLowered /\ CalledName = "count" /\ stmt.sql.d
    /\ Len(stmt.sql.a) = 2
    /\ stmt.sql.a[1].k = "Identifier" /\ stmt.sql.a[2].k = "Number"
    /\ outcome.v.a = <<Column(<<"age">>), One>>

-----------------------------------------------------------------------------
(* C17: LIMIT                                                              *)

UnexpectedLimit == Err("Plan", "Unexpected expression for LIMIT clause")

\* the query's body and ORDER BY have been planned
Sorted == pc # "ready" /\ IsQueryStatement(stmt) /\ IsOk(StageBody) /\ IsOk(StageSorted)

LimitLowered == Lowered(TheQuery.limit, StageSorted.v)
IsInt64Literal(e) == e.k = "Literal" /\ e.s[1] = "Int64"
LiteralValue(e) == SubSeq(e.s, 3, Len(e.s) - 1)

\* C17: LIMIT is accepted only when its lowered expression is Literal(Int64
\* n), and then Limit{n} is the root over the (possibly sorted) plan; any other
\* lowered expression (a float literal, a string, a column, a computed
\* expression) fails with Plan("Unexpected expression for LIMIT clause");
\* without a LIMIT clause the plan is returned with no Limit node added.
C17_Limit ==
    Sorted =>
        IF TheQuery.limit = NoExpr THEN outcome = StageSorted
        ELSE IsOk(LimitLowered) =>
               IF IsInt64Literal(LimitLowered.v)
               THEN /\ IsOk(outcome)
                    /\ outcome.v.node = "Limit"
                    /\ outcome.v.n = LiteralValue(LimitLowered.v)
                    /\ outcome.v.inputs = <<StageSorted.v>>
               ELSE outcome = UnexpectedLimit

\* a sorted query with LIMIT 10 has been planned
C17_Witness ==
    /\ Sorted /\ TheQuery.limit = SNumber(<<"1", "0">>)
    /\ StageSorted.v.node = "Sort"
    /\ IsOk(outcome) /\ outcome.v.node = "Limit" /\ outcome.v.n = <<"1", "0">>
    /\ outcome.v.inputs[1].node = "Sort"

-----------------------------------------------------------------------------
(* A session: successive calls of statement_to_plan on one planner         *)

MaxCalls == 3   \* calls of one session

\* statements of a session: accepted and rejected queries, one whose outcome
\* depends on the build, and a statement that is no query
SessionPool ==
    {QueryStatement(PlainQuery(SelectFrom(<<UnnamedExpr(Id("id"))>>, Person, <<>>))),
     QueryStatement(PlainQuery(SelectFrom(<<UnnamedExpr(Id("state")), UnnamedExpr(MinAge)>>,
                                          Person, <<Id("state")>>))),
     QueryStatement(PlainQuery(SelectFrom(<<UnnamedExpr(Id("state"))>>, Person, <<Num("0")>>))),
     QueryStatement(PlainQuery(SelectFrom(<<UnnamedExpr(NoSuch)>>, Person, <<>>))),
     QueryStatement(Query(SetExprSelect(SelectFrom(<<ItemWildcard>>, Person, <<>>)),
                          <<OrderByExpr(Id("id"), "none", "none")>>, Num("1"))),
     CreateExternalTable("t", <<ColumnDef("c1", "Int", <<>>)>>, "CSV", TRUE, "foo")}

\* a planner has been constructed over the provider; no call has been made;
\* outcome is the record of the calls made, in order
SessionInit ==
    /\ stmt \in SessionPool
    /\ overflow_checks \in BOOLEAN
    /\ pc = "ready"
    /\ outcome = <<>>

\* the caller invokes statement_to_plan(stmt) on the planner
SessionCall ==
    /\ pc = "ready"
    /\ Len(outcome) < MaxCalls
    /\ outcome' = Append(outcome, [statement |-> stmt, result |-> statement_to_plan(stmt)])
    /\ pc' = IF IsPanic(outcome'[Len(outcome')].result) THEN "aborted" ELSE "done"
    /\ UNCHANGED <<stmt, overflow_checks>>

\* the caller takes up its next statement
SessionSubmit ==
    /\ pc = "done"
    /\ Len(outcome) < MaxCalls
    /\ stmt' \in SessionPool
    /\ pc' = "ready"
    /\ UNCHANGED <<overflow_checks, outcome>>

SessionNext == SessionCall \/ SessionSubmit

SessionSpec == SessionInit /\ [][SessionNext]_vars

-----------------------------------------------------------------------------
(* C18: the planner is stateless                                           *)

\* two results are the same plan, or errors of the same kind
SameResult(r1, r2) ==
    /\ r1.tag = r2.tag
    /\ IsOk(r1) => r1.v = r2.v
    /\ IsErr(r1) => r1.kind = r2.kind

-----------------------------------------------------------------------------
(* C19: the order of the steps of a SELECT                                 *)

HavingRejected == Err("NotImplemented", "HAVING is not implemented yet")

\* C19: a SELECT is lowered in the order FROM, WHERE, projection lowering,
\* HAVING rejection, aggregate detection, branch; when several steps would
\* fail, the error returned is that of the earliest failing step in this
\* order: an unknown table, or an unresolvable identifier in WHERE or in the
\* projection, is reported in preference to HAVING's NotImplemented.
C19_EarliestStepFails ==
    (pc # "ready" /\ TopSelect) =>
        IF ~IsOk(StageFrom) THEN outcome = StageFrom
        ELSE IF ~IsOk(StageFilter) THEN outcome = StageFilter
        ELSE IF ~IsOk(StageProjection) THEN outcome = StageProjection
        ELSE TheSelect.having # NoExpr => outcome = HavingRejected

-----------------------------------------------------------------------------
(* C20: the Projection over an Aggregate                                   *)

\* a Projection over an Aggregate has been emitted for the SELECT
ProjectionOverAggregate ==
    /\ Accepted /\ InAggregateBranch
    /\ BodyPlan.node = "Projection"
    /\ BodyPlan.inputs[1].node = "Aggregate"

RECURSIVE Rewritten(_, _)
\* e with every sub-expression whose computed name is an output of the
\* Aggregate replaced by Column(that name), all else kept as it is
Rewritten(e, outputs) ==
    IF IsOk(name(e)) /\ name(e).v \in outputs THEN Column(name(e).v)
    ELSE [e EXCEPT !.a = [i \in 1..Len(e.a) |-> Rewritten(e.a[i], outputs)]]

AggregateOutputs == Range(FieldNames(BodyPlan.inputs[1].schema))

\* C20: in every Projection emitted over an Aggregate each expression is the
\* original projection expression with every aggregate sub-expression
\* replaced by Column(its computed name): no expression of the Projection
\* still contains an AggregateFunction or AggregateUDF node, and every part
\* that is no group or aggregate output is kept structurally unchanged.
C20_ProjectionOverAggregate ==
    ProjectionOverAggregate =>
        /\ Len(BodyPlan.expr) = Len(StageProjection.v)
        /\ \A i \in 1..Len(BodyPlan.expr) :
              /\ \A sub \in SubExprs(BodyPlan.expr[i]) : ~IsAggregateNode(sub)
              /\ BodyPlan.expr[i] = Rewritten(StageProjection.v[i], AggregateOutputs)

-----------------------------------------------------------------------------
(* C21: the aggregate expressions of an Aggregate                          *)

RECURSIVE ReachableAggregates(_)
\* the aggregate sub-expressions reachable through Alias, BinaryExpr and
\* ScalarFunction nodes, in prefix order
ReachableAggregates(e) ==
    IF IsAggregateNode(e) THEN <<e>>
    ELSE IF e.k \in {"Alias", "BinaryExpr", "ScalarFunction"}
    THEN Concat([i \in 1..Len(e.a) |-> ReachableAggregates(e.a[i])])
    ELSE <<>>

\* those of all projection expressions, in select-item order
ProjectionAggregates ==
    Concat([i \in 1..Len(StageProjection.v) |-> ReachableAggregates(StageProjection.v[i])])

\* the positions of q holding the first expression of their computed name
FirstOfName(q) == {i \in 1..Len(q) : \A j \in 1..(i - 1) : name(q[j]) # name(q[i])}

\* q is the subsequence of p at the positions in keep
IsSubSeqAt(q, p, keep) ==
    /\ Len(q) = Cardinality(keep)
    /\ \A i \in 1..Len(q) :
          \E k \in keep : q[i] = p[k] /\ Cardinality({m \in keep : m <= k}) = i

\* C21: the aggregate expressions of an emitted Aggregate are exactly the
\* AggregateFunction / AggregateUDF sub-expressions reachable in the
\* projection through Alias, BinaryExpr and ScalarFunction nodes, in prefix
\* (left-to-right, select-item) order, with duplicates by computed name
\* removed keeping the first occurrence; their names are pairwise distinct.
C21_AggregateExpressions ==
    (Accepted /\ InAggregateBranch) =>
        /\ IsSubSeqAt(BodyAggregate.aggr_expr, ProjectionAggregates,
                      FirstOfName(ProjectionAggregates))
        /\ \A i, j \in 1..Len(BodyAggregate.aggr_expr) :
              i # j => name(BodyAggregate.aggr_expr[i]) # name(BodyAggregate.aggr_expr[j])

\* an Aggregate has been emitted for a projection that reaches three
\* aggregates, two of them of one name
C21_Witness ==
    /\ Accepted /\ InAggregateBranch
    /\ Len(ProjectionAggregates) = 3
    /\ Len(BodyAggregate.aggr_expr) = 2
    /\ BodyAggregate.aggr_expr[1] # BodyAggregate.aggr_expr[2]

-----------------------------------------------------------------------------
(* C22: when a SELECT produces an Aggregate                                *)

\* some projection expression reaches an aggregate through Alias, BinaryExpr
\* and ScalarFunction nodes only
ProjectionReachesAggregate ==
    \E i \in 1..Len(StageProjection.v) : ReachableAggregates(StageProjection.v[i]) # <<>>

\* an aggregate sits in e below a node other than Alias, BinaryExpr and
\* ScalarFunction, and none is reachable
OnlyHiddenAggregates(e) ==
    /\ ReachableAggregates(e) = <<>>
    /\ \E sub \in SubExprs(e) : IsAggregateNode(sub)

\* C22: an accepted SELECT produces an Aggregate node iff its GROUP BY list is
\* non-empty or some projection expression contains an aggregate reachable
\* through Alias, BinaryExpr or ScalarFunction nodes only; otherwise it
\* produces Projection(projection_expr) over the (possibly filtered) input,
\* also when aggregates sit under Cast, Not, IsNull, IsNotNull or ScalarUDF
\* arguments; and is_aggregate_expr(e) is true exactly when
\* collect_aggregate_expr(e) is non-empty.
C22_AggregateIff ==
    (Accepted /\ ProjectionLowered) =>
        /\ IF Len(TheSelect.group_by) > 0 \/ ProjectionReachesAggregate
           THEN BodyAggregate.node = "Aggregate"
           ELSE /\ BodyPlan.node = "Projection"
                /\ BodyPlan.inputs = <<StageFilter.v>>
                /\ Wildcard \notin Range(StageProjection.v) =>
                      BodyPlan.expr = StageProjection.v
        /\ \A i \in 1..Len(StageProjection.v) : \A sub \in SubExprs(StageProjection.v[i]) :
              is_aggregate_expr(sub) <=> (collect_aggregate_expr(sub, <<>>) # <<>>)

\* a SELECT without GROUP BY whose only aggregate sits under a Cast has been
\* planned as a Projection over its input
C22_Witness ==
    /\ Accepted /\ ProjectionLowered
    /\ Len(TheSelect.group_by) = 0
    /\ \E i \in 1..Len(StageProjection.v) : OnlyHiddenAggregates(StageProjection.v[i])
    /\ BodyPlan.node = "Projection"
    /\ BodyPlan.inputs[1].node = "TableScan"

-----------------------------------------------------------------------------
(* C23: nested UNION ALL operations give one flat Union                     *)

\* the statement is a tree of UNION ALL operations with at least one operation
UnionAllStatement ==
    /\ IsQueryStatement(stmt)
    /\ TheQuery.body.k = "SetOperation"
    /\ IsUnionAllTree(TheQuery.body)

\* the plans of the SELECTs of the statement, left to right
LeafPlans ==
    [i \in 1..Len(UnionLeavesOf(TheQuery.body)) |->
        select_to_plan(UnionLeavesOf(TheQuery.body)[i].select).v]

\* C23: every Union of an emitted plan has at least two inputs, none of them
\* a Union; the Union of a tree of UNION ALL operations, nested on either side
\* to any depth, has the plans of the tree's SELECTs as its inputs, in source
\* order; no call returns the "Empty UNION" error.
C23_FlatUnion ==
    /\ Accepted =>
           \A node \in PlanNodes(outcome.v) :
               node.node = "Union" =>
                   /\ Len(node.inputs) >= 2
                   /\ \A i \in 1..Len(node.inputs) : node.inputs[i].node # "Union"
    /\ (Accepted /\ UnionAllStatement) =>
           /\ BodyPlan.node = "Union"
           /\ BodyPlan.inputs = LeafPlans
    /\ Returned => ~(IsErr(outcome) /\ outcome.msg = "Empty UNION")

\* a right-nested tree three operations deep was lowered to one Union of four
\* inputs, not all the same plan
C23_Witness ==
    /\ Accepted
    /\ UnionAllStatement
    /\ TheQuery.body.right.k = "SetOperation"
    /\ TheQuery.body.right.right.k = "SetOperation"
    /\ outcome.v.node = "Union"
    /\ Len(outcome.v.inputs) = 4
    /\ outcome.v.inputs[1] # outcome.v.inputs[2]
    /\ outcome.v.inputs[2] # outcome.v.inputs[3]

-----------------------------------------------------------------------------
(* C24: the alias argument of query_to_plan_with_alias                      *)

QueryCalled == stmt.k = "query_to_plan_with_alias" /\ pc # "ready"
QueryAccepted == stmt.k = "query_to_plan_with_alias" /\ pc = "done" /\ IsOk(outcome)

\* the plans of the SELECTs of a set expression lowered on their own, which
\* takes no alias
PlansOfSelects(set_expr) ==
    [i \in 1..Len(UnionLeavesOf(set_expr)) |->
        select_to_plan(UnionLeavesOf(set_expr)[i].select).v]

\* ORDER BY then LIMIT of the query applied to a lowered body
SortedAndLimited(body) ==
    Try(body, LAMBDA plan :
    Try(order_by(plan, stmt.query.order_by), LAMBDA sorted :
        limit(sorted, stmt.query.limit)))

\* C24: a call of query_to_plan_with_alias whose body is a plain SELECT ends
\* as the SELECT lowered without any alias, sorted and limited, whatever the
\* alias argument; an accepted call whose body is a tree of UNION ALL
\* operations emits, below Sort and Limit, the Union of the plans of its
\* SELECTs, each lowered with no alias, carrying the alias argument; any other
\* body is NotImplemented whatever the alias.
C24_AliasOnUnionOnly ==
    /\ (QueryCalled /\ stmt.query.body.k = "Select") =>
           outcome = SortedAndLimited(select_to_plan(stmt.query.body.select))
    /\ (QueryAccepted /\ stmt.query.body.k = "SetOperation") =>
           /\ IsUnionAllTree(stmt.query.body)
           /\ StripSort(StripLimit(outcome.v)) =
                  Union(PlansOfSelects(stmt.query.body),
                        PlansOfSelects(stmt.query.body)[1].schema, stmt.alias)
    /\ (QueryCalled /\ stmt.query.body.k \notin {"Select", "SetOperation"}) =>
           IsErr(outcome) /\ outcome.kind = "NotImplemented"

\* a UNION ALL called under the alias t was accepted with its Union sorted
\* by t.id and carrying t, one of its inputs reading an aliased derived table
C24_Witness ==
    /\ QueryAccepted
    /\ stmt.query.body.k = "SetOperation"
    /\ stmt.alias = <<<<"t">>>>
    /\ outcome.v.node = "Sort"
    /\ outcome.v.expr[1].a[1] = Column(<<"id">>)
    /\ stmt.query.order_by[1].expr.k = "CompoundIdentifier"
    /\ outcome.v.inputs[1].node = "Union"
    /\ outcome.v.inputs[1].alias = <<<<"t">>>>
    /\ \A i \in 1..Len(outcome.v.inputs[1].inputs) : outcome.v.inputs[1].inputs[i].alias = <<>>

====
